---- MODULE Spec2Model ----
(***************************************************************************)
(* Book Library API test suite: the schema-validated HTTP response         *)
(* assertion pipeline.                                                     *)
(*                                                                         *)
(*   - JSON values and the response normalizer (res.json().catch(null))    *)
(*   - the contracts of src/schemas/book.schema.ts and the zod walk that   *)
(*     validateOrThrow (src/utils/schema-helpers.ts) runs over them        *)
(*   - the request options built by src/clients/http.helpers.ts            *)
(*   - the domain operations of src/services/*.service.ts                  *)
(***************************************************************************)
EXTENDS Integers, Sequences, FiniteSets, TLC

VARIABLES
    vcall,      \* the validateOrThrow call in progress: schema name, value, context
    vresult,    \* its outcome: pending, a returned value or a thrown error
    opcall,     \* the domain operation call in progress: operation and arguments
    wire,       \* what the transport did for that call: request sent, response or failure
    opresult,   \* the operation's outcome: pending, a returned result or a thrown error
    contracts,  \* the exported schemas by name, once the schema module defined them
    service,    \* the Book Library service: its books, next identifier, conventions
    ledger,     \* history: for every identifier the service handed out, what became of it
    workers,    \* the test workers: the scenario each runs, its position and what it holds
    pool        \* the request contexts created so far: who created each, whether disposed

vars == <<vcall, vresult, opcall, wire, opresult, contracts, service, ledger, workers, pool>>

\* the state that neither validateOrThrow nor a domain operation touches
elsewhere == <<contracts, service, ledger, workers, pool>>

(***************************************************************************)
(* JSON values (the result of JSON.parse) and JavaScript's undefined.      *)
(* A string is the sequence of its pieces (single characters wherever the  *)
(* code looks inside it); a number is n + frac/10.                         *)
(***************************************************************************)
Undefined == [t |-> "undefined"]
Null == [t |-> "null"]
Bool(b) == [t |-> "bool", b |-> b]
Num(n) == [t |-> "num", n |-> n, frac |-> 0]
Frac(n, f) == [t |-> "num", n |-> n, frac |-> f]
Str(s) == [t |-> "str", s |-> s]
Arr(a) == [t |-> "arr", a |-> a]
Obj(o) == [t |-> "obj", o |-> o]

EmptyRecord == [key \in {} |-> Undefined]

\* value[key] of JavaScript for a JSON value: undefined when the key is not there
\* (JSON arrays and primitives carry none of the keys the code reads).
Get(v, key) ==
    IF v.t = "obj" /\ key \in DOMAIN v.o THEN v.o[key] ELSE Undefined

\* JavaScript truthiness of a JSON value
Truthy(v) ==
    CASE v.t = "undefined" -> FALSE
      [] v.t = "null" -> FALSE
      [] v.t = "bool" -> v.b
      [] v.t = "num" -> ~(v.n = 0 /\ v.frac = 0)
      [] v.t = "str" -> Len(v.s) > 0
      [] OTHER -> TRUE

\* typeof v
TypeOf(v) ==
    CASE v.t = "undefined" -> "undefined"
      [] v.t = "bool" -> "boolean"
      [] v.t = "num" -> "number"
      [] v.t = "str" -> "string"
      [] OTHER -> "object"

Digits == <<"0", "1", "2", "3", "4", "5", "6", "7", "8", "9">>

RECURSIVE NatToStr(_)
NatToStr(n) ==
    IF n < 10 THEN <<Digits[n + 1]>>
    ELSE NatToStr(n \div 10) \o <<Digits[(n % 10) + 1]>>

\* Number.prototype.toString(): the decimal text of the number
NumberToString(v) ==
    (IF v.n < 0 THEN <<"-">> \o NatToStr(0 - v.n) ELSE NatToStr(v.n))
        \o (IF v.frac = 0 THEN <<>> ELSE <<".", Digits[v.frac + 1]>>)

\* v.toString() of the transform on id (v is a string or a number there)
IdToStringMutNumberKept(v) == v

IdToString(v) ==
    IF v.t = "str" THEN v ELSE Str(NumberToString(v))

(***************************************************************************)
(* src/schemas/book.schema.ts (held in src/src/fixtures/auth.fixture.ts)   *)
(***************************************************************************)
IsbnMinLen == 10
IsbnMaxLen == 17

IsDigit(c) == c \in {"0", "1", "2", "3", "4", "5", "6", "7", "8", "9"}

\* \s of a JavaScript regular expression: space, tab, line breaks, ...
IsWhitespace(c) == c \in {" ", "\t", "\n"}

\* one character of the class [0-9\s-]
IsbnChar(c) == IsDigit(c) \/ IsWhitespace(c) \/ c = "-"

\* isbnRegex = /^[0-9\s-]{10,17}$/ tested on s
isbnRegex(s) ==
    /\ Len(s) >= IsbnMinLen
    /\ Len(s) <= IsbnMaxLen
    /\ \A i \in 1..Len(s) : IsbnChar(s[i])

\* zod schema constructors
ZString(min, re) == [k |-> "string", min |-> min, regex |-> re]
ZNumber(isInt) == [k |-> "number", int |-> isInt]
ZBoolean == [k |-> "boolean"]
ZUnion(options) == [k |-> "union", options |-> options]
ZTransform(inner, fn) == [k |-> "effects", inner |-> inner, fn |-> fn]
ZOptional(inner) == [k |-> "optional", inner |-> inner]
ZObject(keys, shape) == [k |-> "object", keys |-> keys, shape |-> shape]
ZArray(element) == [k |-> "array", element |-> element]

ZPartialMutInPlaceNoop(schema) == schema

\* z.object(...).partial(): a new object schema, every field wrapped optional
ZPartial(schema) ==
    ZObject(schema.keys,
            [key \in DOMAIN schema.shape |-> ZOptional(schema.shape[key])])

BookKeys == <<"id", "title", "author", "isbn", "publishedYear", "available">>

BookSchema ==
    ZObject(BookKeys,
        [id |-> ZTransform(ZUnion(<<ZString(0, "none"), ZNumber(FALSE)>>), "toString"),
         title |-> ZString(1, "none"),
         author |-> ZString(1, "none"),
         isbn |-> ZString(0, "isbn"),
         publishedYear |-> ZNumber(TRUE),
         available |-> ZBoolean])

BookResponseSchema ==
    ZObject(<<"success", "data", "message">>,
        [success |-> ZBoolean,
         data |-> BookSchema,
         message |-> ZString(0, "none")])

PartialBookSchema == ZPartial(BookSchema)

PartialBookResponseSchema == ZPartial(BookResponseSchema)

BookListResponseSchema ==
    ZObject(<<"success", "count", "data">>,
        [success |-> ZBoolean,
         count |-> ZNumber(FALSE),
         data |-> ZArray(BookSchema)])

SchemaNames ==
    {"BookSchema", "BookResponseSchema", "PartialBookSchema",
     "PartialBookResponseSchema", "BookListResponseSchema"}

SchemaOf(name) ==
    CASE name = "BookSchema" -> BookSchema
      [] name = "BookResponseSchema" -> BookResponseSchema
      [] name = "PartialBookSchema" -> PartialBookSchema
      [] name = "PartialBookResponseSchema" -> PartialBookResponseSchema
      [] name = "BookListResponseSchema" -> BookListResponseSchema

\* the module's exports once it has been evaluated
Exported == [name \in SchemaNames |-> SchemaOf(name)]

(***************************************************************************)
(* The zod walk: schema.safeParse(value).  An issue is (path, code,        *)
(* message); the walk returns every issue it meets and, when there is      *)
(* none, the parsed data.                                                  *)
(***************************************************************************)
Issue(path, code, message) == [path |-> path, code |-> code, message |-> message]

\* the type name zod reports for a received value
ParsedType(v) ==
    CASE v.t = "undefined" -> "undefined"
      [] v.t = "null" -> "null"
      [] v.t = "bool" -> "boolean"
      [] v.t = "num" -> "number"
      [] v.t = "str" -> "string"
      [] v.t = "arr" -> "array"
      [] v.t = "obj" -> "object"

InvalidType(path, expected, v) ==
    Issue(path, "invalid_type",
          IF v.t = "undefined" THEN <<"Required">>
          ELSE <<"Expected ", expected, ", received ", ParsedType(v)>>)

Failed(issues) == [issues |-> issues, data |-> Undefined]
Parsed(data) == [issues |-> <<>>, data |-> data]

\* the path element of array index i, as path.join('.') prints it (arrays of the
\* model are shorter than ten elements)
IndexKey(i) == Digits[i + 1]

\* z.string() with its .min(n) and .regex(isbnRegex) checks
ParseString(schema, v, path) ==
    IF v.t # "str" THEN Failed(<<InvalidType(path, "string", v)>>)
    ELSE LET small == IF Len(v.s) < schema.min
                      THEN <<Issue(path, "too_small",
                                   <<"String must contain at least 1 character(s)">>)>>
                      ELSE <<>>
             re == IF schema.regex = "isbn" /\ ~isbnRegex(v.s)
                   THEN <<Issue(path, "invalid_string", <<"Invalid">>)>>
                   ELSE <<>>
         IN  IF small \o re = <<>> THEN Parsed(v) ELSE Failed(small \o re)

\* z.number() with its .int() check
ParseNumber(schema, v, path) ==
    IF v.t # "num" THEN Failed(<<InvalidType(path, "number", v)>>)
    ELSE IF schema.int /\ v.frac # 0
         THEN Failed(<<Issue(path, "invalid_type", <<"Expected integer, received float">>)>>)
         ELSE Parsed(v)

\* z.boolean()
ParseBoolean(schema, v, path) ==
    IF v.t # "bool" THEN Failed(<<InvalidType(path, "boolean", v)>>)
    ELSE Parsed(v)

RECURSIVE Parse(_, _, _)
RECURSIVE ParseFields(_, _, _, _)
RECURSIVE ParseElements(_, _, _, _)
RECURSIVE ParseUnion(_, _, _, _)

\* z.union([...]): the first option that accepts the value, else one issue
ParseUnion(schema, v, path, i) ==
    IF i > Len(schema.options)
    THEN Failed(<<Issue(path, "invalid_union", <<"Invalid input">>)>>)
    ELSE LET r == Parse(schema.options[i], v, path)
         IN  IF r.issues = <<>> THEN r ELSE ParseUnion(schema, v, path, i + 1)

\* .transform(fn): fn runs only on a value the inner schema accepted
ParseEffects(schema, v, path) ==
    LET r == Parse(schema.inner, v, path)
    IN  IF r.issues # <<>> THEN r ELSE Parsed(IdToString(r.data))

\* .optional(): undefined passes, anything else goes to the inner schema
ParseOptional(schema, v, path) ==
    IF v.t = "undefined" THEN Parsed(Undefined)
    ELSE Parse(schema.inner, v, path)

ParseFieldsMutStopAtFirst(schema, v, path, i) ==
    IF i > Len(schema.keys) THEN <<>>
    ELSE LET key == schema.keys[i]
             r == Parse(schema.shape[key], Get(v, key), Append(path, key))
         IN  IF r.issues # <<>> THEN r.issues
             ELSE ParseFields(schema, v, path, i + 1)

\* the issues of the fields of an object schema, from the i-th key on, in key order
ParseFields(schema, v, path, i) ==
    IF i > Len(schema.keys) THEN <<>>
    ELSE LET key == schema.keys[i]
         IN  Parse(schema.shape[key], Get(v, key), Append(path, key)).issues
                 \o ParseFields(schema, v, path, i + 1)

UnknownKeysMutStrict(schema, v, path) ==
    IF DOMAIN v.o \subseteq DOMAIN schema.shape THEN <<>>
    ELSE <<Issue(path, "unrecognized_keys", <<"Unrecognized key(s) in object">>)>>

\* the issues a z.object raises for keys it does not declare: none (it strips them)
UnknownKeys(schema, v, path) == <<>>

\* z.object({...}): every declared key is parsed; undeclared keys are dropped
ParseObject(schema, v, path) ==
    IF v.t # "obj" THEN Failed(<<InvalidType(path, "object", v)>>)
    ELSE LET issues == ParseFields(schema, v, path, 1) \o UnknownKeys(schema, v, path)
             field(key) == Parse(schema.shape[key], Get(v, key), Append(path, key))
             kept == {key \in DOMAIN schema.shape : field(key).data.t # "undefined"}
         IN  IF issues # <<>> THEN Failed(issues)
             ELSE Parsed(Obj([key \in kept |-> field(key).data]))

\* the issues of the elements of an array, from the i-th on
ParseElements(schema, v, path, i) ==
    IF i > Len(v.a) THEN <<>>
    ELSE Parse(schema.element, v.a[i], Append(path, IndexKey(i - 1))).issues
             \o ParseElements(schema, v, path, i + 1)

\* z.array(element)
ParseArray(schema, v, path) ==
    IF v.t # "arr" THEN Failed(<<InvalidType(path, "array", v)>>)
    ELSE LET issues == ParseElements(schema, v, path, 1)
         IN  IF issues # <<>> THEN Failed(issues)
             ELSE Parsed(Arr([i \in 1..Len(v.a) |->
                     Parse(schema.element, v.a[i], Append(path, IndexKey(i - 1))).data]))

Parse(schema, v, path) ==
    CASE schema.k = "string" -> ParseString(schema, v, path)
      [] schema.k = "number" -> ParseNumber(schema, v, path)
      [] schema.k = "boolean" -> ParseBoolean(schema, v, path)
      [] schema.k = "union" -> ParseUnion(schema, v, path, 1)
      [] schema.k = "effects" -> ParseEffects(schema, v, path)
      [] schema.k = "optional" -> ParseOptional(schema, v, path)
      [] schema.k = "object" -> ParseObject(schema, v, path)
      [] schema.k = "array" -> ParseArray(schema, v, path)

\* schema.safeParse(value)
SafeParse(schema, value) == Parse(schema, value, <<>>)

(***************************************************************************)
(* src/utils/schema-helpers.ts (held in src/tests/books/deleteBook.spec.ts)*)
(***************************************************************************)
RECURSIVE JoinPath(_)
\* path.join('.')
JoinPath(path) ==
    IF path = <<>> THEN <<>>
    ELSE IF Len(path) = 1 THEN <<path[1]>>
    ELSE <<path[1], ".">> \o JoinPath(Tail(path))

PathTextMutNoRootFallback(path) == JoinPath(path)

\* e.path.join('.') || '<root>'
PathText(path) ==
    IF JoinPath(path) = <<>> THEN <<"<root>">> ELSE JoinPath(path)

\* `- ${path}: ${e.message}`
IssueLine(e) == <<"- ">> \o PathText(e.path) \o <<": ">> \o e.message

\* context ? `Validation failed (${context}):` : 'Validation failed:'
HeaderLine(context) ==
    IF context # "" THEN <<"Validation failed (", context, "):">>
    ELSE <<"Validation failed:">>

Returned(data) == [kind |-> "return", data |-> data]
Thrown(error, message) == [kind |-> "throw", error |-> error, message |-> message]
Pending == [kind |-> "pending"]

\* validateOrThrow(schema, value, context): the parsed data, or an Error whose
\* message is the header line followed by one line per issue
validateOrThrow(schema, value, context) ==
    LET result == SafeParse(schema, value)
    IN  IF result.issues = <<>> THEN Returned(result.data)
        ELSE Thrown("Error",
                    <<HeaderLine(context)>>
                        \o [i \in 1..Len(result.issues) |-> IssueLine(result.issues[i])])

(***************************************************************************)
(* The values the validator is run on: response bodies as the service may  *)
(* send them, well formed or not.                                          *)
(***************************************************************************)
MaxIsbnLen == 18    \* isbn strings of every length 0..MaxIsbnLen are tried
MaxArrayLen == 2    \* list responses hold 0..MaxArrayLen books

BookFields == {"id", "title", "author", "isbn", "publishedYear", "available"}

\* an object holding the keys of f whose value is not undefined
MkObj(f) == Obj([key \in {kk \in DOMAIN f : f[kk].t # "undefined"} |-> f[key]])

DigitRun(n) == [i \in 1..n |-> Digits[(i % 10) + 1]]

\* digit strings with at most one other character somewhere inside
IsbnStrings ==
    {DigitRun(n) : n \in 0..MaxIsbnLen}
        \cup {DigitRun(a) \o <<c>> \o DigitRun(b) :
                 a \in 0..(MaxIsbnLen - 1), b \in 0..(MaxIsbnLen - 1),
                 c \in {"-", " ", "\t", "\n", "x", "."}}

IsbnCandidates == {Str(x) : x \in {y \in IsbnStrings : Len(y) <= MaxIsbnLen}}

SampleIsbn == <<"9", "7", "8", "-", "0", "1", "3", "5", "9", "5", "7", "0", "5", "9">>

GoodValue(key, variant) ==
    CASE key = "id" -> IF variant = 1 THEN Str(<<"7">>) ELSE Num(120)
      [] key = "title" -> IF variant = 1 THEN Str(<<"T">>) ELSE Str(<<"D", "u", "n", "e">>)
      [] key = "author" -> IF variant = 1 THEN Str(<<"A">>) ELSE Str(<<"F", "H">>)
      [] key = "isbn" -> IF variant = 1 THEN Str(SampleIsbn) ELSE Str(DigitRun(IsbnMinLen))
      [] key = "publishedYear" -> IF variant = 1 THEN Num(2023) ELSE Num(0)
      [] key = "available" -> IF variant = 1 THEN Bool(TRUE) ELSE Bool(FALSE)

BadValue(key, variant) ==
    CASE key = "id" -> IF variant = 1 THEN Bool(TRUE) ELSE Null
      [] key = "title" -> IF variant = 1 THEN Str(<<>>) ELSE Num(1)
      [] key = "author" -> IF variant = 1 THEN Str(<<>>) ELSE Null
      [] key = "isbn" -> IF variant = 1 THEN Str(<<"9", "7", "8">>) ELSE Num(978)
      [] key = "publishedYear" -> IF variant = 1 THEN Frac(2023, 5) ELSE Str(<<"2", "0", "2", "3">>)
      [] key = "available" -> IF variant = 1 THEN Str(<<"y", "e", "s">>) ELSE Null

ExtraValue == Str(<<"x">>)

\* a book body: each declared field absent, well formed or malformed, with or
\* without an undeclared field
MkBook(status, variant, extra) ==
    MkObj([key \in BookFields \cup {"extra"} |->
             IF key = "extra" THEN (IF extra THEN ExtraValue ELSE Undefined)
             ELSE CASE status[key] = "absent" -> Undefined
                    [] status[key] = "good" -> GoodValue(key, variant)
                    [] status[key] = "bad" -> BadValue(key, variant)])

AllGood == [key \in BookFields |-> "good"]

GoodBook(variant) == MkBook(AllGood, variant, FALSE)

With(obj, key, value) == Obj([kk \in DOMAIN obj.o \cup {key} |-> IF kk = key THEN value ELSE obj.o[kk]])

BookBodies ==
    {MkBook(status, variant, extra) :
        status \in [BookFields -> {"absent", "good", "bad"}],
        variant \in 1..2, extra \in BOOLEAN}

IdCandidates ==
    {Str(<<"7">>), Str(<<>>), Str(<<"a", "b">>), Num(0), Num(7), Num(120), Num(0 - 3),
     Frac(1, 5), Bool(FALSE), Null, Arr(<<>>), Obj(EmptyRecord)}

IsbnBodies == {With(GoodBook(1), "isbn", x) : x \in IsbnCandidates}

IdBodies == {With(GoodBook(2), "id", x) : x \in IdCandidates}

NonObjects == {Null, Bool(TRUE), Num(5), Str(<<"o", "k">>), Arr(<<>>)}

\* the books that envelopes and lists carry
SmallBooks ==
    {GoodBook(1), GoodBook(2), MkBook(AllGood, 1, TRUE),
     MkBook([AllGood EXCEPT !["title"] = "absent", !["isbn"] = "absent"], 1, FALSE),
     MkBook([AllGood EXCEPT !["isbn"] = "bad"], 1, FALSE),
     MkBook([AllGood EXCEPT !["available"] = "bad", !["id"] = "absent"], 2, FALSE),
     Obj(EmptyRecord)}

EnvelopeBodies ==
    {MkObj([success |-> success, message |-> message, data |-> data, extra |-> extra]) :
        success \in {Undefined, Bool(TRUE), Str(<<"y">>)},
        message \in {Undefined, Str(<<"o", "k">>), Num(1)},
        data \in {Undefined, Null, Str(<<"7">>)} \cup SmallBooks,
        extra \in {Undefined, ExtraValue}}

BookArrays ==
    UNION {[1..n -> {GoodBook(1), GoodBook(2), MkBook(AllGood, 1, TRUE),
                     MkBook([AllGood EXCEPT !["title"] = "absent", !["isbn"] = "bad"], 1, FALSE),
                     Null}] : n \in 0..MaxArrayLen}

ListBodies ==
    {MkObj([success |-> success, count |-> count, data |-> data, extra |-> extra]) :
        success \in {Undefined, Bool(TRUE)},
        count \in {Undefined, Num(2), Str(<<"2">>)},
        data \in {Undefined, Str(<<"7">>)} \cup {Arr(a) : a \in BookArrays},
        extra \in {Undefined, ExtraValue}}

\* the (schema, value) pairs validateOrThrow is called with
ValidatorInputs ==
    ({"BookSchema", "PartialBookSchema"} \X (BookBodies \cup IsbnBodies \cup IdBodies))
        \cup ({"BookResponseSchema", "PartialBookResponseSchema", "PartialBookSchema"}
                \X EnvelopeBodies)
        \cup ({"BookListResponseSchema"} \X ListBodies)
        \cup (SchemaNames \X NonObjects)

Contexts == {"", "createBook response"}

NoCall == [op |-> "none"]

\* no service is in the picture: the responses are whatever the network hands over
NoService == [books |-> <<>>, nextId |-> 0, idStyle |-> "string", getMessage |-> FALSE]
NoLedger == <<>>
NoWorkers == <<>>
NoPool == <<>>
Quiet == [sent |-> <<>>, outcome |-> [kind |-> "notSent"]]

(***************************************************************************)
(* The validator as a state machine: a scenario hands a body to            *)
(* validateOrThrow, which returns the parsed value or throws.              *)
(***************************************************************************)
InitValidator ==
    /\ \E in \in ValidatorInputs, context \in Contexts :
          vcall = [schema |-> in[1], value |-> in[2], context |-> context]
    /\ vresult = Pending
    /\ opcall = NoCall
    /\ wire = Quiet
    /\ opresult = Pending
    /\ contracts = Exported
    /\ service = NoService
    /\ ledger = NoLedger
    /\ workers = NoWorkers
    /\ pool = NoPool

ValidateOrThrow ==
    /\ vresult = Pending
    /\ vresult' = validateOrThrow(contracts[vcall.schema], vcall.value, vcall.context)
    /\ UNCHANGED <<vcall, opcall, wire, opresult, elsewhere>>

NextValidator == ValidateOrThrow

SpecValidator == InitValidator /\ [][NextValidator]_vars

(***************************************************************************)
(* What the contracts say, read declaratively: the field paths at which a  *)
(* value violates a contract, and the value cut down to the declared keys. *)
(***************************************************************************)
RECURSIVE Conforms(_, _)
\* the value meets the constraint of a leaf schema
Conforms(schema, v) ==
    CASE schema.k = "string" ->
            /\ v.t = "str"
            /\ Len(v.s) >= schema.min
            /\ (schema.regex = "isbn" => isbnRegex(v.s))
      [] schema.k = "number" -> v.t = "num" /\ (schema.int => v.frac = 0)
      [] schema.k = "boolean" -> v.t = "bool"
      [] schema.k = "union" ->
            \E i \in 1..Len(schema.options) : Conforms(schema.options[i], v)

RECURSIVE ViolatedPaths(_, _, _)
ViolatedPaths(schema, v, path) ==
    CASE schema.k = "object" ->
            IF v.t # "obj" THEN {path}
            ELSE UNION {ViolatedPaths(schema.shape[key], Get(v, key), Append(path, key)) :
                           key \in DOMAIN schema.shape}
      [] schema.k = "array" ->
            IF v.t # "arr" THEN {path}
            ELSE UNION {ViolatedPaths(schema.element, v.a[i], Append(path, IndexKey(i - 1))) :
                           i \in 1..Len(v.a)}
      [] schema.k = "optional" ->
            IF v.t = "undefined" THEN {} ELSE ViolatedPaths(schema.inner, v, path)
      [] schema.k = "effects" -> ViolatedPaths(schema.inner, v, path)
      [] OTHER -> IF Conforms(schema, v) THEN {} ELSE {path}

RECURSIVE Declared(_, _)
\* the value without the fields its contract does not name
Declared(schema, v) ==
    CASE schema.k = "object" /\ v.t = "obj" ->
            Obj([key \in DOMAIN v.o \cap DOMAIN schema.shape |->
                    Declared(schema.shape[key], v.o[key])])
      [] schema.k = "array" /\ v.t = "arr" ->
            Arr([i \in 1..Len(v.a) |-> Declared(schema.element, v.a[i])])
      [] schema.k \in {"optional", "effects"} -> Declared(schema.inner, v)
      [] OTHER -> v

\* the message line of an error names path p
LineNames(line, p) ==
    LET prefix == <<"- ">> \o PathText(p) \o <<": ">>
    IN  Len(line) >= Len(prefix) /\ SubSeq(line, 1, Len(prefix)) = prefix

Validated == vresult.kind # "pending"

CalledSchema == SchemaOf(vcall.schema)

\* C1: validation is total. Whenever the value violates its contract at k >= 1
\* field paths, validateOrThrow throws, and the error's message has a line for
\* every one of the k paths, not only for the first.
C1_AllViolationsReported ==
    Validated =>
        LET bad == ViolatedPaths(CalledSchema, vcall.value, <<>>)
        IN  bad # {} =>
              /\ vresult.kind = "throw"
              /\ \A p \in bad :
                    \E i \in 2..Len(vresult.message) : LineNames(vresult.message[i], p)
              /\ Len(vresult.message) - 1 >= Cardinality(bad)

\* C1 witness: a book body missing two required fields (title and isbn) was
\* validated and the error names both.
C1_Witness ==
    /\ vcall.schema = "BookSchema"
    /\ vcall.value = MkBook([AllGood EXCEPT !["title"] = "absent", !["isbn"] = "absent"], 1, FALSE)
    /\ vresult.kind = "throw"
    /\ Len(vresult.message) = 3
    /\ LineNames(vresult.message[2], <<"title">>)
    /\ LineNames(vresult.message[3], <<"isbn">>)

\* the number a decimal text denotes: optional sign, digits, optional ".d"
DigitValue(c) == CHOOSE d \in 0..9 : Digits[d + 1] = c

RECURSIVE DigitsValue(_)
DigitsValue(s) ==
    IF s = <<>> THEN 0
    ELSE 10 * DigitsValue(SubSeq(s, 1, Len(s) - 1)) + DigitValue(s[Len(s)])

DecimalValue(text) ==
    LET neg == text # <<>> /\ text[1] = "-"
        body == IF neg THEN Tail(text) ELSE text
        dots == {i \in 1..Len(body) : body[i] = "."}
        dot == IF dots = {} THEN Len(body) + 1 ELSE CHOOSE i \in dots : \A j \in dots : i <= j
        whole == DigitsValue(SubSeq(body, 1, dot - 1))
    IN  [n |-> IF neg THEN 0 - whole ELSE whole,
         frac |-> IF dots = {} THEN 0 ELSE DigitValue(body[dot + 1])]

IsDecimalText(text) ==
    /\ text # <<>>
    /\ \A i \in 1..Len(text) : IsDigit(text[i]) \/ (i = 1 /\ text[i] = "-") \/ text[i] = "."

\* C7: on success the value is coerced to the declared shape. For every body
\* BookSchema accepts, the parsed id is a string: the input id itself when that
\* was a string, the decimal text of the input id when that was a number; and
\* every other declared field is returned as it was given.
C7_IdCanonicalizedToString ==
    (Validated /\ vcall.schema = "BookSchema" /\ vresult.kind = "return") =>
        LET in == vcall.value.o
            out == vresult.data.o
        IN  /\ out.id.t = "str"
            /\ in.id.t \in {"str", "num"}
            /\ (in.id.t = "str" => out.id = in.id)
            /\ (in.id.t = "num" =>
                    /\ IsDecimalText(out.id.s)
                    /\ DecimalValue(out.id.s) = [n |-> in.id.n, frac |-> in.id.frac])
            /\ \A key \in BookFields \ {"id"} : out[key] = in[key]

\* C7 witness: a book whose id is the number 120 was accepted and came back
\* with id "120".
C7_Witness ==
    /\ vcall.schema = "BookSchema"
    /\ vcall.value = GoodBook(2)
    /\ vresult.kind = "return"
    /\ vresult.data.o.id = Str(<<"1", "2", "0">>)

\* C8: extra fields are ignored. Validating a value gives the outcome of
\* validating the same value without the fields its contract does not name (at
\* the top level, inside data, inside list elements): accepted together, and
\* rejected with the same violations.
C8_ExtraFieldsIgnored ==
    Validated =>
        vresult = validateOrThrow(CalledSchema, Declared(CalledSchema, vcall.value),
                                  vcall.context)

\* C8 witness: an envelope with an undeclared field at the top level and another
\* inside data was accepted by BookResponseSchema.
C8_Witness ==
    /\ vcall.schema = "BookResponseSchema"
    /\ vcall.value.t = "obj"
    /\ "extra" \in DOMAIN vcall.value.o
    /\ Get(vcall.value, "data").t = "obj"
    /\ "extra" \in DOMAIN vcall.value.o.data.o
    /\ vresult.kind = "return"

\* C9: a partial contract makes every field optional and keeps the constraints
\* of the fields that are present. PartialBookSchema accepts an object exactly
\* when every book field present in it meets the Book constraint of that field,
\* whichever fields are missing.
C9_PartialKeepsConstraints ==
    (Validated /\ vcall.schema = "PartialBookSchema" /\ vcall.value.t = "obj") =>
        (vresult.kind = "return" <=>
            \A key \in BookFields \cap DOMAIN vcall.value.o :
                ViolatedPaths(BookSchema.shape[key], vcall.value.o[key], <<key>>) = {})

\* C9 witness: an object holding only available was accepted by PartialBookSchema.
C9_Witness ==
    /\ vcall.schema = "PartialBookSchema"
    /\ vcall.value = Obj([available |-> Bool(TRUE)])
    /\ vresult.kind = "return"

\* C9 second witness: a partial object whose only field is isbn "978" was rejected.
C9_WitnessRejected ==
    /\ vcall.schema = "PartialBookSchema"
    /\ vcall.value = Obj([isbn |-> Str(<<"9", "7", "8">>)])
    /\ vresult.kind = "throw"

\* the validation reported a violation at path isbn
IsbnReported ==
    /\ vresult.kind = "throw"
    /\ \E i \in 2..Len(vresult.message) : LineNames(vresult.message[i], <<"isbn">>)

IsbnValidated ==
    /\ Validated
    /\ vcall.schema = "BookSchema"
    /\ vcall.value.t = "obj"
    /\ Get(vcall.value, "isbn").t = "str"

\* C10: the Book contract accepts an isbn string if and only if its length is
\* 10 to 17 and every character is a digit, a hyphen or a space; every other
\* string produces a violation at path isbn.
C10_IsbnDigitsHyphensSpaces ==
    IsbnValidated =>
        LET s == vcall.value.o.isbn.s
        IN  ~IsbnReported <=>
                /\ Len(s) >= 10
                /\ Len(s) <= 17
                /\ \A i \in 1..Len(s) : IsDigit(s[i]) \/ s[i] = "-" \/ s[i] = " "

\* C10, as the code has it: the class is [0-9\s-], so any whitespace character
\* (tab, line break) is accepted where a space is.
C10_IsbnDigitsHyphensWhitespace ==
    IsbnValidated =>
        LET s == vcall.value.o.isbn.s
        IN  ~IsbnReported <=>
                /\ Len(s) >= 10
                /\ Len(s) <= 17
                /\ \A i \in 1..Len(s) :
                      IsDigit(s[i]) \/ s[i] = "-" \/ s[i] \in {" ", "\t", "\n"}

(***************************************************************************)
(* src/clients/http.helpers.ts                                             *)
(***************************************************************************)
NoHeaders == [name \in {} |-> <<>>]

\* `Bearer ${token}`
Bearer(token) == <<"Bearer ">> \o token.s

buildHeadersMutAmbientToken(token, contentType) ==
    (IF contentType # "" THEN ("Content-Type" :> <<contentType>>) ELSE NoHeaders)
        @@ ("Authorization" :> Bearer(IF Truthy(token) THEN token ELSE Str(<<"jwt">>)))

\* buildHeaders(token, contentType = 'application/json')
buildHeaders(token, contentType) ==
    (IF contentType # "" THEN ("Content-Type" :> <<contentType>>) ELSE NoHeaders)
        @@ (IF Truthy(token) THEN ("Authorization" :> Bearer(token)) ELSE NoHeaders)

Headers(h) == [t |-> "headers", h |-> h]

\* addRequestOptions(data, token, headers): opts.data when data is not undefined,
\* opts.headers = { ...base, ...headers } when that has a key
\* addRequestOptions attaching the data only when it is truthy
addRequestOptionsMutTruthyData(data, token, headers) ==
    LET base == buildHeaders(token, "application/json")
        merged == IF headers.t # "undefined" THEN headers.h @@ base ELSE base
    IN  [data |-> IF Truthy(data) THEN data ELSE Undefined,
         headers |-> IF DOMAIN merged # {} THEN Headers(merged) ELSE Undefined]

addRequestOptions(data, token, headers) ==
    LET base == buildHeaders(token, "application/json")
        merged == IF headers.t # "undefined" THEN headers.h @@ base ELSE base
    IN  [data |-> data,
         headers |-> IF DOMAIN merged # {} THEN Headers(merged) ELSE Undefined]

NoOptions == [data |-> Undefined, headers |-> Undefined]

\* `${id}` for an id that is a string or a number
IdText(id) == IF id.t = "str" THEN id.s ELSE NumberToString(id)

Request(method, path, opts) == [method |-> method, path |-> path, opts |-> opts]

(***************************************************************************)
(* src/clients/books.client.ts and src/clients/auth.client.ts: the request *)
(* each client method hands to the Playwright request context.             *)
(***************************************************************************)
SupportedMethods == {"get", "post", "put", "patch", "delete", "head"}

BooksClient_createBookMutPayloadDropped(payload, token) ==
    Request("post", <<"/books">>, addRequestOptions(Undefined, token, Undefined))

BooksClient_createBook(payload, token) ==
    Request("post", <<"/books">>, addRequestOptions(payload, token, Undefined))

BooksClient_getBookById(id) ==
    Request("get", <<"/books/">> \o IdText(id), NoOptions)

\* updateBook sending the request without the payload
BooksClient_updateBookMutNoBody(id, payload, token) ==
    Request("put", <<"/books/">> \o IdText(id), addRequestOptions(Undefined, token, Undefined))

BooksClient_updateBook(id, payload, token) ==
    Request("put", <<"/books/">> \o IdText(id), addRequestOptions(payload, token, Undefined))

\* deleteBook falling back to a stored token when none is passed
BooksClient_deleteBookMutStoredToken(id, token) ==
    Request("delete", <<"/books/">> \o IdText(id),
            addRequestOptions(Undefined, IF Truthy(token) THEN token ELSE Str(<<"jwt">>), Undefined))

BooksClient_deleteBook(id, token) ==
    Request("delete", <<"/books/">> \o IdText(id), addRequestOptions(Undefined, token, Undefined))

BooksClient_patchBook(id, payload, token) ==
    Request("patch", <<"/books/">> \o IdText(id), addRequestOptions(payload, token, Undefined))

\* options?.data, options?.token, options?.headers
Option(options, key) == IF options.t = "undefined" THEN Undefined ELSE options[key]

\* requestRaw: the request for one of the six methods, an Error for any other
BooksClient_requestRaw(method, path, options) ==
    IF method \in SupportedMethods
    THEN Returned(Request(method, path,
                          addRequestOptions(Option(options, "data"), Option(options, "token"),
                                            Option(options, "headers"))))
    ELSE Thrown("Error", <<"Unsupported method: ", method>>)

AuthClient_login(payload) ==
    Request("post", <<"/auth/login">>, addRequestOptions(payload, Undefined, Undefined))

(***************************************************************************)
(* The Playwright request context and response, as the services use them.  *)
(***************************************************************************)
NetworkError == [kind |-> "networkError"]
Response(status, raw) == [kind |-> "response", status |-> status, raw |-> raw]
NotSent == [kind |-> "notSent"]

RawJson(v) == [k |-> "json", v |-> v]
RawText(what) == [k |-> "text", what |-> what]

ApiRequestMutFailOnStatusCode(outcome) ==
    IF outcome.kind = "networkError" \/ outcome.status >= 400
    THEN Thrown("NetworkError", <<"apiRequestContext: request failed">>)
    ELSE Returned(outcome)

\* await request.post(...) and the like: the response whatever its status
\* (failOnStatusCode is not set), an exception when the network fails
ApiRequest(outcome) ==
    IF outcome.kind = "networkError"
    THEN Thrown("NetworkError", <<"apiRequestContext: request failed">>)
    ELSE Returned(outcome)

\* res.ok(): the status is in 200..299
ResOk(res) == res.status >= 200 /\ res.status <= 299

\* res.json(): JSON.parse of the body text
ResJson(res) ==
    IF res.raw.k = "json" THEN Returned(res.raw.v)
    ELSE Thrown("SyntaxError", <<"Unexpected end of JSON input">>)

CatchNullMutRethrow(outcome) == outcome

\* .catch(() => null)
CatchNull(outcome) == IF outcome.kind = "throw" THEN Returned(Null) ELSE outcome

\* a && b, a || b, a ?? b
And(a, b) == IF Truthy(a) THEN b ELSE a
Or(a, b) == IF Truthy(a) THEN a ELSE b
Nullish(a, b) == IF a.t \in {"null", "undefined"} THEN b ELSE a

\* a?.key
OptionalGet(a, key) == IF a.t \in {"null", "undefined"} THEN Undefined ELSE Get(a, key)

(***************************************************************************)
(* src/services/books.service.ts and src/services/auth.service.ts.  Each   *)
(* operation is given its arguments and what the network does with the     *)
(* request; it yields the requests it sent and its result or exception.    *)
(***************************************************************************)
Ran(sent, result) == [sent |-> sent, result |-> result]

\* body && body.data ? body.data : undefined
ExtractBook(body) ==
    IF Truthy(And(body, Get(body, "data"))) THEN Get(body, "data") ELSE Undefined

ExtractDeletedIdMutDataOnly(body) ==
    Nullish(And(body, OptionalGet(Get(body, "data"), "id")), Undefined)

\* (body && (body.deletedId || body.data?.id)) ?? undefined
ExtractDeletedId(body) ==
    Nullish(And(body, Or(Get(body, "deletedId"), OptionalGet(Get(body, "data"), "id"))),
            Undefined)

ExchangeMutRetryOnFailure(request, net) ==
    LET res == ApiRequest(net)
    IN  IF res.kind = "throw" THEN Ran(<<request, request>>, res)
        ELSE LET body == CatchNull(ResJson(res.data))
             IN  IF body.kind = "throw" THEN Ran(<<request>>, body)
                 ELSE Ran(IF res.data.status >= 500 THEN <<request, request>> ELSE <<request>>,
                          Returned([status |-> res.data.status, ok |-> ResOk(res.data),
                                    body |-> body.data]))

\* const res = await <client call>; const status = res.status(); const ok = res.ok();
\* const body = await res.json().catch(() => null); return { status, ok, body }
Exchange(request, net) ==
    LET res == ApiRequest(net)
    IN  IF res.kind = "throw" THEN Ran(<<request>>, res)
        ELSE LET body == CatchNull(ResJson(res.data))
             IN  IF body.kind = "throw" THEN Ran(<<request>>, body)
                 ELSE Ran(<<request>>,
                          Returned([status |-> res.data.status, ok |-> ResOk(res.data),
                                    body |-> body.data]))

\* the returned object with the field book added
WithBook(ran) ==
    IF ran.result.kind # "return" THEN ran
    ELSE Ran(ran.sent,
             Returned(ran.result.data @@ [book |-> ExtractBook(ran.result.data.body)]))

\* the returned object with the field deletedId added
WithDeletedId(ran) ==
    IF ran.result.kind # "return" THEN ran
    ELSE Ran(ran.sent,
             Returned(ran.result.data @@ [deletedId |-> ExtractDeletedId(ran.result.data.body)]))

\* createBook throwing on an answer outside 2xx instead of returning it
createBookMutThrowOnError(payload, token, net) ==
    LET ran == WithBook(Exchange(BooksClient_createBook(payload, token), net))
    IN  IF ran.result.kind = "return" /\ ~ran.result.data.ok
        THEN Ran(ran.sent, Thrown("Error", <<"request failed">>))
        ELSE ran

createBook(payload, token, net) ==
    WithBook(Exchange(BooksClient_createBook(payload, token), net))

getBookById(id, net) ==
    WithBook(Exchange(BooksClient_getBookById(id), net))

updateBook(id, payload, token, net) ==
    WithBook(Exchange(BooksClient_updateBook(id, payload, token), net))

deleteBook(id, token, net) ==
    WithDeletedId(Exchange(BooksClient_deleteBook(id, token), net))

patchBook(id, payload, token, net) ==
    Exchange(BooksClient_patchBook(id, payload, token), net)

rawRequest(method, path, options, net) ==
    LET built == BooksClient_requestRaw(method, path, options)
    IN  IF built.kind = "throw" THEN Ran(<<>>, built)
        ELSE Exchange(built.data, net)

LoginFailed == Thrown("Error", <<"Login failed: response body is not valid JSON">>)

LoginBodyInvalidMutTruthyOnly(body) == ~Truthy(body)

LoginBodyInvalidMutTypeofOnly(body) == TypeOf(body) # "object"

\* !body || typeof body !== 'object'
LoginBodyInvalid(body) == ~Truthy(body) \/ TypeOf(body) # "object"

authenticate(payload, net) ==
    LET request == AuthClient_login(payload)
        res == ApiRequest(net)
    IN  IF res.kind = "throw" THEN Ran(<<request>>, res)
        ELSE LET body == CatchNull(ResJson(res.data))
             IN  IF body.kind = "throw" THEN Ran(<<request>>, body)
                 ELSE IF LoginBodyInvalid(body.data) THEN Ran(<<request>>, LoginFailed)
                 ELSE IF body.data.t \in {"null", "undefined"}
                      THEN Ran(<<request>>,
                               Thrown("TypeError", <<"Cannot read properties of null">>))
                 ELSE Ran(<<request>>,
                          Returned([status |-> res.data.status, ok |-> ResOk(res.data),
                                    body |-> body.data, token |-> Get(body.data, "token")]))

(***************************************************************************)
(* The arguments the scenarios pass and the responses the service (or a    *)
(* proxy, or a broken deployment) may send.                                *)
(***************************************************************************)
Jwt == Str(<<"jwt">>)

Tokens == {Undefined, Str(<<>>), Jwt}

Ids == {Num(7), Str(<<"1">>), Num(999999)}

CreatePayloads ==
    {Obj([title |-> Str(<<"T">>), author |-> Str(<<"A">>), isbn |-> Str(SampleIsbn),
          publishedYear |-> Num(2023), available |-> Bool(TRUE)]),
     Obj([title |-> Str(<<"T">>), author |-> Str(<<"A">>)])}

UpdatePayloads == {Obj([available |-> Bool(FALSE)]), Obj([title |-> Str(<<"updated">>)])}

PatchPayloads == {Undefined, Obj([available |-> Bool(FALSE)])}

LoginPayloads ==
    {Obj([username |-> Str(<<"admin">>), password |-> Str(<<"secret">>)]),
     Obj([username |-> Str(<<"admin">>), password |-> Str(<<"password123">>)]),
     Obj(EmptyRecord)}

RawMethods == SupportedMethods \cup {"options"}

RawPaths == {<<"/invalid">>, <<"/books">>}

RawOptions ==
    {Undefined,
     [t |-> "options", data |-> Undefined, token |-> Jwt, headers |-> Undefined],
     [t |-> "options", data |-> Obj([title |-> Str(<<"T">>)]), token |-> Undefined,
      headers |-> Headers("Content-Type" :> <<"text/plain">>)],
     [t |-> "options", data |-> Undefined, token |-> Jwt,
      headers |-> Headers("Authorization" :> <<"Basic ", "YWRtaW4=">>)],
     [t |-> "options", data |-> Undefined, token |-> Undefined,
      headers |-> Headers("Authorization" :> <<"Bearer ", "other">>)],
     [t |-> "options", data |-> Bool(FALSE), token |-> Jwt,
      headers |-> Headers("X-Trace" :> <<"1">>)],
     [t |-> "options", data |-> Null, token |-> Undefined, headers |-> Undefined]}

Statuses == {200, 201, 400, 401, 404, 500}

ErrorBody(error, message) == Obj([error |-> Str(<<error>>), message |-> Str(<<message>>)])

Envelope(data) ==
    Obj([success |-> Bool(TRUE), message |-> Str(<<"Book created successfully">>), data |-> data])

JsonBodies ==
    {Null, Bool(TRUE), Bool(FALSE), Num(0), Num(5), Str(<<>>), Str(<<"o", "k">>),
     Arr(<<>>), Arr(<<GoodBook(1)>>), Obj(EmptyRecord),
     Obj([message |-> Str(<<"Login successful">>), token |-> Jwt,
          user |-> Obj([username |-> Str(<<"admin">>)])]),
     ErrorBody("Unauthorized", "Invalid username or password"),
     ErrorBody("Bad Request", "Username and password are required"),
     ErrorBody("Not Found", "Book with ID 999999 not found"),
     ErrorBody("Access denied. No token provided.",
               "Authorization header with Bearer token is required"),
     Envelope(GoodBook(1)), Envelope(GoodBook(2)),
     Envelope(MkBook([AllGood EXCEPT !["isbn"] = "bad"], 1, FALSE)),
     Envelope(Str(<<"oops">>)), Envelope(Null), Envelope(Num(0)), Envelope(Bool(TRUE)),
     Envelope(Obj(EmptyRecord)), Envelope(Arr(<<GoodBook(1)>>)),
     Obj([success |-> Bool(TRUE), message |-> Str(<<"Book deleted successfully">>),
          deletedId |-> Str(<<"7">>)]),
     Obj([deletedId |-> Num(0), data |-> Obj([id |-> Num(7)])]),
     Obj([deletedId |-> Str(<<>>), data |-> Null])}

RawBodies ==
    {RawJson(v) : v \in JsonBodies}
        \cup {RawText("empty"), RawText("html page"), RawText("truncated json")}

\* what the network does with a request
NetOutcomes == {NetworkError} \cup {Response(status, raw) : status \in Statuses, raw \in RawBodies}

(***************************************************************************)
(* The domain operations as a state machine: a scenario makes one call at  *)
(* a time; the call sends its request, gets the network's outcome and      *)
(* settles with a result or an exception.                                  *)
(***************************************************************************)
Init ==
    /\ vcall = NoCall
    /\ vresult = Pending
    /\ opcall = NoCall
    /\ wire = Quiet
    /\ opresult = Pending
    /\ contracts = Exported
    /\ service = NoService
    /\ ledger = NoLedger
    /\ workers = NoWorkers
    /\ pool = NoPool

\* what went over the wire during a call
Wire(run, net) == [sent |-> run.sent, outcome |-> IF run.sent = <<>> THEN NotSent ELSE net]

CreateBook ==
    /\ opcall = NoCall
    /\ \E payload \in CreatePayloads, token \in Tokens, net \in NetOutcomes :
          LET run == createBook(payload, token, net)
          IN  /\ opcall' = [op |-> "createBook", payload |-> payload, token |-> token]
              /\ wire' = Wire(run, net)
              /\ opresult' = run.result
    /\ UNCHANGED <<vcall, vresult, elsewhere>>

GetBookById ==
    /\ opcall = NoCall
    /\ \E id \in Ids, net \in NetOutcomes :
          LET run == getBookById(id, net)
          IN  /\ opcall' = [op |-> "getBookById", id |-> id]
              /\ wire' = Wire(run, net)
              /\ opresult' = run.result
    /\ UNCHANGED <<vcall, vresult, elsewhere>>

UpdateBook ==
    /\ opcall = NoCall
    /\ \E id \in Ids, payload \in UpdatePayloads, token \in Tokens, net \in NetOutcomes :
          LET run == updateBook(id, payload, token, net)
          IN  /\ opcall' = [op |-> "updateBook", id |-> id, payload |-> payload,
                            token |-> token]
              /\ wire' = Wire(run, net)
              /\ opresult' = run.result
    /\ UNCHANGED <<vcall, vresult, elsewhere>>

DeleteBook ==
    /\ opcall = NoCall
    /\ \E id \in Ids, token \in Tokens, net \in NetOutcomes :
          LET run == deleteBook(id, token, net)
          IN  /\ opcall' = [op |-> "deleteBook", id |-> id, token |-> token]
              /\ wire' = Wire(run, net)
              /\ opresult' = run.result
    /\ UNCHANGED <<vcall, vresult, elsewhere>>

PatchBook ==
    /\ opcall = NoCall
    /\ \E id \in Ids, payload \in PatchPayloads, token \in Tokens, net \in NetOutcomes :
          LET run == patchBook(id, payload, token, net)
          IN  /\ opcall' = [op |-> "patchBook", id |-> id, payload |-> payload,
                            token |-> token]
              /\ wire' = Wire(run, net)
              /\ opresult' = run.result
    /\ UNCHANGED <<vcall, vresult, elsewhere>>

RawRequest ==
    /\ opcall = NoCall
    /\ \E method \in RawMethods, path \in RawPaths, options \in RawOptions,
          net \in NetOutcomes :
          LET run == rawRequest(method, path, options, net)
          IN  /\ opcall' = [op |-> "rawRequest", method |-> method, path |-> path,
                            options |-> options]
              /\ wire' = Wire(run, net)
              /\ opresult' = run.result
    /\ UNCHANGED <<vcall, vresult, elsewhere>>

Authenticate ==
    /\ opcall = NoCall
    /\ \E payload \in LoginPayloads, net \in NetOutcomes :
          LET run == authenticate(payload, net)
          IN  /\ opcall' = [op |-> "authenticate", payload |-> payload]
              /\ wire' = Wire(run, net)
              /\ opresult' = run.result
    /\ UNCHANGED <<vcall, vresult, elsewhere>>

\* the scenario takes the outcome and goes on to its next call
NextCall ==
    /\ opcall # NoCall
    /\ opcall' = NoCall
    /\ wire' = Quiet
    /\ opresult' = Pending
    /\ UNCHANGED <<vcall, vresult, elsewhere>>

Next ==
    \/ CreateBook
    \/ GetBookById
    \/ UpdateBook
    \/ DeleteBook
    \/ PatchBook
    \/ RawRequest
    \/ Authenticate
    \/ NextCall

Spec == Init /\ [][Next]_vars

(***************************************************************************)
(* Claims about the domain operations                                      *)
(***************************************************************************)
BookOps == {"createBook", "getBookById", "updateBook", "deleteBook", "patchBook", "rawRequest"}

GotResponse == wire.outcome.kind = "response"

NetworkFailed == wire.outcome.kind = "networkError"

\* the response body is not JSON text: empty, an HTML page, truncated
Unparseable == GotResponse /\ wire.outcome.raw.k = "text"

\* the response body as the operation sees it after res.json().catch(() => null)
NormalizedBody == IF wire.outcome.raw.k = "json" THEN wire.outcome.raw.v ELSE Null

StatusIsOk == wire.outcome.status \in 200..299

UnsupportedMethod == opcall.op = "rawRequest" /\ opcall.method \notin SupportedMethods

\* C2: for createBook, getBookById, updateBook, deleteBook, patchBook and
\* rawRequest, a response whose body cannot be parsed as JSON makes the
\* operation return (not throw) a result with body null and with status and ok
\* taken from the response.
C2_UnparseableBodyIsNull ==
    (opcall.op \in BookOps /\ Unparseable) =>
        /\ opresult.kind = "return"
        /\ opresult.data.body = Null
        /\ opresult.data.status = wire.outcome.status
        /\ opresult.data.ok = StatusIsOk

\* C2 witness: patchBook got a 404 with an HTML page and returned body null.
C2_Witness ==
    /\ opcall.op = "patchBook"
    /\ wire.outcome = Response(404, RawText("html page"))
    /\ opresult.kind = "return"
    /\ opresult.data.body = Null
    /\ opresult.data.status = 404
    /\ ~opresult.data.ok

\* C3 (as claimed): a book operation throws if and only if the transport fails
\* at network level; every HTTP response comes back as a {status, ok, body}
\* result.
C3_ThrowsIffNetworkFailure ==
    opcall.op \in BookOps =>
        /\ opresult.kind = "throw" <=> NetworkFailed
        /\ GotResponse => opresult.kind = "return"

\* C3 (amended): a book operation throws if and only if the transport fails at
\* network level or, for rawRequest, the method is none of the six supported
\* ones (then nothing is sent). Every HTTP response, whatever its status, comes
\* back as a result carrying that status; a network failure is thrown on as it is.
C3_ThrowsOnlyWithoutResponse ==
    opcall.op \in BookOps =>
        /\ opresult.kind = "throw" <=> (NetworkFailed \/ UnsupportedMethod)
        /\ GotResponse =>
              /\ opresult.kind = "return"
              /\ opresult.data.status = wire.outcome.status
              /\ opresult.data.ok = StatusIsOk
              /\ opresult.data.body = NormalizedBody
        /\ NetworkFailed => opresult.kind = "throw" /\ opresult.error = "NetworkError"
        /\ UnsupportedMethod =>
              /\ wire.sent = <<>>
              /\ opresult = Thrown("Error", <<"Unsupported method: ", opcall.method>>)

\* C3 witness: getBookById got a 500 and returned it as a result with ok false.
C3_Witness ==
    /\ opcall.op = "getBookById"
    /\ GotResponse
    /\ wire.outcome.status = 500
    /\ opresult.kind = "return"
    /\ opresult.data.status = 500
    /\ ~opresult.data.ok

\* C3 second witness: the network failed under deleteBook and the failure was thrown.
C3_WitnessNetwork ==
    /\ opcall.op = "deleteBook"
    /\ NetworkFailed
    /\ opresult.kind = "throw"

Login401 == ErrorBody("Unauthorized", "Invalid username or password")
Login400 == ErrorBody("Bad Request", "Username and password are required")

\* the result authenticate returns for the response on the wire
LoginResult ==
    Returned([status |-> wire.outcome.status, ok |-> StatusIsOk, body |-> NormalizedBody,
              token |-> Get(NormalizedBody, "token")])

C4_WitnessArray ==
    /\ opcall.op = "authenticate"
    /\ GotResponse
    /\ NormalizedBody.t = "arr"
    /\ opresult.kind = "return"

\* C5 (as claimed): when the login response has an empty or unparseable body,
\* authenticate returns a result with a null body and no token.
C5_AuthReturnsNullBody ==
    (opcall.op = "authenticate" /\ Unparseable) =>
        /\ opresult.kind = "return"
        /\ opresult.data.body = Null
        /\ opresult.data.token = Undefined

\* C5 (amended): a non-JSON or empty body is not an error for the book
\* operations, which return body null; authenticate is the exception: on an
\* empty or unparseable login response it throws 'Login failed: response body is
\* not valid JSON'.
C5_OnlyAuthThrowsOnUnparseable ==
    Unparseable =>
        /\ opcall.op = "authenticate" => opresult = LoginFailed
        /\ opcall.op \in BookOps => opresult.kind = "return" /\ opresult.data.body = Null

\* C5 witness: authenticate got a 200 with an empty body and threw Login failed.
C5_Witness ==
    /\ opcall.op = "authenticate"
    /\ wire.outcome = Response(200, RawText("empty"))
    /\ opresult = LoginFailed

\* the Book type of src/types/book.dto.ts
BookShaped(v) ==
    /\ v.t = "obj"
    /\ Get(v, "id").t \in {"str", "num"}
    /\ Get(v, "title").t = "str"
    /\ Get(v, "author").t = "str"
    /\ Get(v, "isbn").t \in {"str", "undefined"}
    /\ Get(v, "publishedYear").t \in {"num", "undefined"}
    /\ Get(v, "available").t \in {"bool", "undefined"}

\* C6: the field book of createBook, getBookById and updateBook is present only
\* when the body is an object whose data holds a book-shaped object (read here
\* at its weakest: a JSON object); for every other body it is absent, and no
\* body makes the extraction throw.
C6_BookOnlyFromEnvelope ==
    (opcall.op \in {"createBook", "getBookById", "updateBook"} /\ GotResponse) =>
        /\ opresult.kind = "return"
        /\ opresult.data.book.t # "undefined" => Get(NormalizedBody, "data").t = "obj"

\* C6, the part the code keeps: extraction never throws, and book is the body's
\* data whenever that is a book.
C6_BookFromEnvelopeData ==
    (opcall.op \in {"createBook", "getBookById", "updateBook"} /\ GotResponse) =>
        /\ opresult.kind = "return"
        /\ BookShaped(Get(NormalizedBody, "data")) =>
              opresult.data.book = Get(NormalizedBody, "data")
        /\ ~Truthy(Get(NormalizedBody, "data")) => opresult.data.book = Undefined


(***************************************************************************)
(* The text of a validation error, stated from the outside: the header and *)
(* the dotted path every line must carry.                                  *)
(***************************************************************************)
\* the keys of a path with a dot between neighbours; '<root>' for the empty path
DottedPath(p) ==
    IF p = <<>> THEN <<"<root>">>
    ELSE [i \in 1..(2 * Len(p) - 1) |-> IF i % 2 = 1 THEN p[(i + 1) \div 2] ELSE "."]

\* line is '- <dotted path>: <reason>' with a reason that is not empty
LineReports(line, p) ==
    LET prefix == <<"- ">> \o DottedPath(p) \o <<": ">>
    IN  /\ Len(line) > Len(prefix)
        /\ SubSeq(line, 1, Len(prefix)) = prefix

ExpectedHeader ==
    IF vcall.context = "" THEN <<"Validation failed:">>
    ELSE <<"Validation failed (", vcall.context, "):">>

\* C11: on validation failure the message's first line is 'Validation failed
\* (<context>):' when a context was given and 'Validation failed:' otherwise,
\* and the lines after it are one per violated path, each '- <path>: <reason>'
\* with the path's keys joined by dots and '<root>' for the value itself.
C11_MessageListsEveryPairPerLine ==
    (Validated /\ vresult.kind = "throw") =>
        LET bad == ViolatedPaths(CalledSchema, vcall.value, <<>>)
            lines == 2..Len(vresult.message)
        IN  /\ vresult.error = "Error"
            /\ vresult.message[1] = ExpectedHeader
            /\ Cardinality(lines) = Cardinality(bad)
            /\ \A p \in bad : \E i \in lines : LineReports(vresult.message[i], p)
            /\ \A i \in lines : \E p \in bad : LineReports(vresult.message[i], p)

\* C11 witness: a create response whose data lacks title and isbn was validated
\* with the context 'createBook response'; the error names data.title and
\* data.isbn under the labelled header.
C11_Witness ==
    /\ vcall.schema = "BookResponseSchema"
    /\ vcall.context = "createBook response"
    /\ vresult.kind = "throw"
    /\ vresult.message =
          << <<"Validation failed (", "createBook response", "):">>,
             <<"- ", "data", ".", "title", ": ", "Required">>,
             <<"- ", "data", ".", "isbn", ": ", "Required">> >>

\* C11 witness: a body that is not an object at all is reported at '<root>',
\* here without a context label.
C11_WitnessRoot ==
    /\ vcall.value = Null
    /\ vcall.context = ""
    /\ vresult.kind = "throw"
    /\ vresult.message =
          << <<"Validation failed:">>,
             <<"- ", "<root>", ": ", "Expected ", "object", ", received ", "null">> >>


(***************************************************************************)
(* Claims about the requests the clients build                             *)
(***************************************************************************)
\* the token argument of the call in progress (getBookById and login take none)
PassedToken ==
    CASE opcall.op \in {"createBook", "updateBook", "deleteBook", "patchBook"} -> opcall.token
      [] opcall.op = "rawRequest" -> Option(opcall.options, "token")
      [] OTHER -> Undefined

\* the extra headers argument of the call in progress (rawRequest only)
PassedHeaders ==
    IF opcall.op = "rawRequest" /\ Option(opcall.options, "headers").t = "headers"
    THEN Option(opcall.options, "headers").h
    ELSE NoHeaders

HasHeader(request, name) ==
    request.opts.headers.t = "headers" /\ name \in DOMAIN request.opts.headers.h

\* C12 as claimed: a request carries Authorization 'Bearer <token>' if and only
\* if a non-empty token was passed to the call that built it.
C12_AuthorizationIffTokenPassed ==
    \A i \in 1..Len(wire.sent) :
        LET request == wire.sent[i]
        IN  /\ HasHeader(request, "Authorization") <=> Truthy(PassedToken)
            /\ HasHeader(request, "Authorization") =>
                  request.opts.headers.h["Authorization"] = <<"Bearer ">> \o PassedToken.s

\* C12 amended: the Authorization header of a request comes from the arguments
\* of the call that built it and from nothing else. It is the caller's own
\* Authorization extra header when rawRequest was given one; otherwise it is
\* 'Bearer <token>' when a non-empty token was passed and absent when not.
C12_AuthorizationFromCallArguments ==
    \A i \in 1..Len(wire.sent) :
        LET request == wire.sent[i]
        IN  IF "Authorization" \in DOMAIN PassedHeaders
            THEN /\ HasHeader(request, "Authorization")
                 /\ request.opts.headers.h["Authorization"] = PassedHeaders["Authorization"]
            ELSE /\ HasHeader(request, "Authorization") <=> Truthy(PassedToken)
                 /\ HasHeader(request, "Authorization") =>
                       request.opts.headers.h["Authorization"] = <<"Bearer ">> \o PassedToken.s

\* C12 witness: deleteBook was called with a token and with none; the first
\* request carries 'Bearer jwt', the second no Authorization header.
C12_Witness ==
    /\ opcall.op = "deleteBook"
    /\ opcall.token = Jwt
    /\ Len(wire.sent) = 1
    /\ HasHeader(wire.sent[1], "Authorization")
    /\ wire.sent[1].opts.headers.h["Authorization"] = <<"Bearer ", "jwt">>

C12_WitnessNoToken ==
    /\ opcall.op = "deleteBook"
    /\ opcall.token = Undefined
    /\ Len(wire.sent) = 1
    /\ ~HasHeader(wire.sent[1], "Authorization")


(***************************************************************************)
(* Claims about the round trip of one invocation                           *)
(***************************************************************************)
InCall == opcall # NoCall

\* what a returned result says about the response is what the response said
ResultMirrorsResponse ==
    opresult.kind = "return" =>
        /\ GotResponse
        /\ opresult.data.status = wire.outcome.status
        /\ opresult.data.ok = StatusIsOk
        /\ opresult.data.body = NormalizedBody

\* C13 as claimed: every invocation of a domain operation issues exactly one
\* HTTP request.
C13_ExactlyOneRequest ==
    InCall => Len(wire.sent) = 1

\* C13 amended: an invocation issues exactly one HTTP request, whatever the
\* status or failure, except rawRequest with a method that is not one of the
\* six supported ones, which issues none; and a returned result carries the
\* status, ok flag and body of that one response, whatever calls came before.
C13_OneRequestNoRetry ==
    InCall =>
        /\ Len(wire.sent) = (IF UnsupportedMethod THEN 0 ELSE 1)
        /\ ResultMirrorsResponse

\* C13 witness: deleteBook met a network failure; one request went out and the
\* failure was thrown on without a second attempt.
C13_Witness ==
    /\ opcall.op = "deleteBook"
    /\ NetworkFailed
    /\ Len(wire.sent) = 1
    /\ opresult.kind = "throw"

\* C13 witness: a 500 answer to createBook is returned after a single request.
C13_WitnessServerError ==
    /\ opcall.op = "createBook"
    /\ GotResponse
    /\ wire.outcome.status = 500
    /\ Len(wire.sent) = 1
    /\ opresult.kind = "return"
    /\ opresult.data.status = 500


(***************************************************************************)
(* src/schemas/book.schema.ts as it is evaluated: the module defines its   *)
(* five exports one after the other, each from the bindings defined so     *)
(* far; after that the scenarios validate bodies against them, any number  *)
(* of times and in any order.                                              *)
(***************************************************************************)
NotDefined == [k |-> "notDefined"]

Defined(name) == contracts[name] # NotDefined

\* export const <name> = <schema>
ExportConst(reg, name, schema) == [reg EXCEPT ![name] = schema]

CallPartialMutInPlace(reg, name, from) ==
    [reg EXCEPT ![name] = ZPartial(reg[from]), ![from] = ZPartial(reg[from])]

\* export const <name> = <from>.partial()
CallPartial(reg, name, from) == ExportConst(reg, name, ZPartial(reg[from]))

\* the bodies validated once the contracts are defined
ContractInputs ==
    SchemaNames \X
        (NonObjects \cup SmallBooks
            \cup {Envelope(GoodBook(1)), Envelope(Obj(EmptyRecord)),
                  MkObj([success |-> Bool(TRUE), count |-> Num(2),
                         data |-> Arr(<<GoodBook(1), GoodBook(2)>>)])})

InitContracts ==
    /\ contracts = [name \in SchemaNames |-> NotDefined]
    /\ service = NoService
    /\ ledger = NoLedger
    /\ workers = NoWorkers
    /\ pool = NoPool
    /\ vcall = NoCall
    /\ vresult = Pending
    /\ opcall = NoCall
    /\ wire = Quiet
    /\ opresult = Pending

DefineBookSchema ==
    /\ ~Defined("BookSchema")
    /\ contracts' = ExportConst(contracts, "BookSchema", BookSchema)
    /\ UNCHANGED <<vcall, vresult, opcall, wire, opresult, service, ledger, workers, pool>>

DefineBookResponseSchema ==
    /\ Defined("BookSchema") /\ ~Defined("BookResponseSchema")
    /\ contracts' = ExportConst(contracts, "BookResponseSchema",
                                [BookResponseSchema EXCEPT !.shape.data = contracts["BookSchema"]])
    /\ UNCHANGED <<vcall, vresult, opcall, wire, opresult, service, ledger, workers, pool>>

DefinePartialBookSchema ==
    /\ Defined("BookResponseSchema") /\ ~Defined("PartialBookSchema")
    /\ contracts' = CallPartial(contracts, "PartialBookSchema", "BookSchema")
    /\ UNCHANGED <<vcall, vresult, opcall, wire, opresult, service, ledger, workers, pool>>

DefinePartialBookResponseSchema ==
    /\ Defined("PartialBookSchema") /\ ~Defined("PartialBookResponseSchema")
    /\ contracts' = CallPartial(contracts, "PartialBookResponseSchema", "BookResponseSchema")
    /\ UNCHANGED <<vcall, vresult, opcall, wire, opresult, service, ledger, workers, pool>>

DefineBookListResponseSchema ==
    /\ Defined("PartialBookResponseSchema") /\ ~Defined("BookListResponseSchema")
    /\ contracts' = ExportConst(contracts, "BookListResponseSchema",
                                [BookListResponseSchema EXCEPT
                                    !.shape.data = ZArray(contracts["BookSchema"])])
    /\ UNCHANGED <<vcall, vresult, opcall, wire, opresult, service, ledger, workers, pool>>

\* a scenario validates a body against one of the contracts
ValidateAgainstContract ==
    /\ \A name \in SchemaNames : Defined(name)
    /\ \E in \in ContractInputs, context \in Contexts :
          /\ vcall' = [schema |-> in[1], value |-> in[2], context |-> context]
          /\ vresult' = validateOrThrow(contracts[in[1]], in[2], context)
    /\ UNCHANGED <<opcall, wire, opresult, contracts, service, ledger, workers, pool>>

NextContracts ==
    \/ DefineBookSchema
    \/ DefineBookResponseSchema
    \/ DefinePartialBookSchema
    \/ DefinePartialBookResponseSchema
    \/ DefineBookListResponseSchema
    \/ ValidateAgainstContract

SpecContracts == InitContracts /\ [][NextContracts]_vars

\* C14: a contract never changes shape after it is defined. No step, neither
\* deriving PartialBookSchema or PartialBookResponseSchema nor a validation,
\* changes a contract that is already defined, and a validation of the value
\* validated just before, against the same contract, gives the same result.
C14_ContractsNeverChangeShape ==
    [][/\ \A name \in SchemaNames : Defined(name) => contracts'[name] = contracts[name]
       /\ (Validated /\ vcall' = vcall) => vresult' = vresult]_vars

\* C14 witness: with both partial contracts derived, BookSchema still rejects an
\* empty object with a line for each of its six required fields.
C14_Witness ==
    /\ Defined("PartialBookSchema") /\ Defined("PartialBookResponseSchema")
    /\ vcall # NoCall
    /\ vcall.schema = "BookSchema"
    /\ vcall.value = Obj(EmptyRecord)
    /\ vresult.kind = "throw"
    /\ Len(vresult.message) = 7


(***************************************************************************)
(* The Book Library service, the external collaborator the operations talk *)
(* to, as its HTTP surface is documented: a store of books under           *)
(* server-assigned identifiers, bearer-token protection of the mutations.  *)
(* Two points the documentation leaves open are kept open: whether         *)
(* identifiers travel as numbers or as strings, and whether the 200 answer *)
(* of GET /books/{id} carries a message next to success and data.          *)
(***************************************************************************)
AdminLogin == Obj([username |-> Str(<<"admin">>), password |-> Str(<<"secret">>)])

BookDataKeys == {"title", "author", "isbn", "publishedYear", "available"}

\* the identifier as the service writes it into a body
IdJson(svc, idText) ==
    IF svc.idStyle = "number" THEN Num(DigitsValue(idText)) ELSE Str(idText)

\* the stored book with its identifier
BookJson(svc, idText) ==
    Obj(("id" :> IdJson(svc, idText)) @@ svc.books[idText].o)

NotFoundBody(idText) ==
    Obj([error |-> Str(<<"Not Found">>),
         message |-> Str(<<"Book with ID ">> \o idText \o <<" not found">>)])

NoTokenBody ==
    Obj([error |-> Str(<<"Access denied. No token provided.">>),
         message |-> Str(<<"Authorization header with Bearer token is required">>)])

InvalidTokenBody ==
    Obj([error |-> Str(<<"Invalid or expired token">>), message |-> Str(<<"jwt malformed">>)])

MissingFieldsBody ==
    Obj([error |-> Str(<<"Bad Request">>),
         message |-> Str(<<"Missing required fields: title, author, and isbn are required">>)])

InvalidIsbnBody ==
    Obj([error |-> Str(<<"Bad Request">>),
         message |-> Str(<<"Invalid ISBN format. ISBN should be 10 or 13 digits (hyphens and spaces allowed)">>)])

\* the service's ISBN rule: 10 to 17 characters, each a digit, a hyphen or a space
ServiceIsbnValid(v) ==
    /\ v.t = "str"
    /\ Len(v.s) >= 10 /\ Len(v.s) <= 17
    /\ \A i \in 1..Len(v.s) : IsDigit(v.s[i]) \/ v.s[i] \in {"-", " "}

Answer(svc, status, bodyJson) == [svc |-> svc, response |-> Response(status, RawJson(bodyJson))]

RequestHeader(request, name) ==
    IF request.opts.headers.t = "headers" /\ name \in DOMAIN request.opts.headers.h
    THEN request.opts.headers.h[name]
    ELSE <<>>

\* the 401 answer of a protected route, or "pass" for the valid bearer token
TokenCheck(request) ==
    LET header == RequestHeader(request, "Authorization")
    IN  IF header = <<>> THEN "none"
        ELSE IF header = <<"Bearer ", "jwt">> THEN "pass"
        ELSE "invalid"

\* POST /auth/login
ServeLogin(svc, request) ==
    LET payload == request.opts.data
    IN  IF ~Truthy(Get(payload, "username")) \/ ~Truthy(Get(payload, "password"))
        THEN Answer(svc, 400, ErrorBody("Bad Request", "Username and password are required"))
        ELSE IF payload = AdminLogin
        THEN Answer(svc, 200,
                    Obj([message |-> Str(<<"Login successful">>), token |-> Str(<<"jwt">>),
                         user |-> Obj([username |-> Str(<<"admin">>)])]))
        ELSE Answer(svc, 401, ErrorBody("Unauthorized", "Invalid username or password"))

\* POST /books
ServeCreate(svc, request) ==
    LET payload == request.opts.data
        idText == NatToStr(svc.nextId)
        stored == Obj([key \in DOMAIN payload.o \cap BookDataKeys |-> payload.o[key]])
        after == [svc EXCEPT !.books = (idText :> stored) @@ svc.books,
                             !.nextId = svc.nextId + 1]
    IN  CASE TokenCheck(request) = "none" -> Answer(svc, 401, NoTokenBody)
          [] TokenCheck(request) = "invalid" -> Answer(svc, 401, InvalidTokenBody)
          [] OTHER ->
                IF \E key \in {"title", "author", "isbn"} : ~Truthy(Get(payload, key))
                THEN Answer(svc, 400, MissingFieldsBody)
                ELSE IF ~ServiceIsbnValid(Get(payload, "isbn"))
                THEN Answer(svc, 400, InvalidIsbnBody)
                ELSE Answer(after, 201,
                            Obj([success |-> Bool(TRUE),
                                 message |-> Str(<<"Book created successfully">>),
                                 data |-> BookJson(after, idText)]))

\* GET /books/{id}
ServeGet(svc, idText) ==
    IF idText \notin DOMAIN svc.books THEN Answer(svc, 404, NotFoundBody(idText))
    ELSE Answer(svc, 200,
                IF svc.getMessage
                THEN Obj([success |-> Bool(TRUE), data |-> BookJson(svc, idText),
                          message |-> Str(<<"Book retrieved successfully">>)])
                ELSE Obj([success |-> Bool(TRUE), data |-> BookJson(svc, idText)]))

\* PUT /books/{id}: the fields of the body replace the stored ones
ServeUpdate(svc, request, idText) ==
    LET payload == request.opts.data
        changes == IF payload.t = "obj"
                   THEN [key \in DOMAIN payload.o \cap BookDataKeys |-> payload.o[key]]
                   ELSE EmptyRecord
        after == [svc EXCEPT !.books[idText] = Obj(changes @@ svc.books[idText].o)]
    IN  CASE TokenCheck(request) = "none" -> Answer(svc, 401, NoTokenBody)
          [] TokenCheck(request) = "invalid" -> Answer(svc, 401, InvalidTokenBody)
          [] OTHER ->
                IF idText \notin DOMAIN svc.books THEN Answer(svc, 404, NotFoundBody(idText))
                ELSE Answer(after, 200,
                            Obj([success |-> Bool(TRUE),
                                 message |-> Str(<<"Book updated successfully">>),
                                 data |-> BookJson(after, idText)]))

\* DELETE /books/{id}
ServeDelete(svc, request, idText) ==
    LET after == [svc EXCEPT !.books = [key \in DOMAIN svc.books \ {idText} |-> svc.books[key]]]
    IN  CASE TokenCheck(request) = "none" -> Answer(svc, 401, NoTokenBody)
          [] TokenCheck(request) = "invalid" -> Answer(svc, 401, InvalidTokenBody)
          [] OTHER ->
                IF idText \notin DOMAIN svc.books THEN Answer(svc, 404, NotFoundBody(idText))
                ELSE Answer(after, 200,
                            Obj([success |-> Bool(TRUE),
                                 message |-> Str(<<"Book deleted successfully">>),
                                 deletedId |-> IdJson(svc, idText)]))

\* any other method or path
ServeUnknown(svc, request) ==
    Answer(svc, 404,
           IF request.method = "patch"
           THEN Obj([error |-> Str(<<"Not Found">>),
                     message |-> Str(<<"Cannot PATCH ">> \o request.path)])
           ELSE Obj([error |-> Str(<<"Not Found">>),
                     message |-> Str(<<"Route ">> \o request.path \o <<" not found">>),
                     availableEndpoints |-> Arr(<<Str(<<"/books">>)>>)]))

\* the service handles one request: its answer and its state afterwards
Serve(svc, request) ==
    LET path == request.path
        onBook == Len(path) > 1 /\ path[1] = "/books/"
        idText == Tail(path)
    IN  CASE request.method = "post" /\ path = <<"/auth/login">> -> ServeLogin(svc, request)
          [] request.method = "post" /\ path = <<"/books">> -> ServeCreate(svc, request)
          [] request.method = "get" /\ onBook -> ServeGet(svc, idText)
          [] request.method = "put" /\ onBook -> ServeUpdate(svc, request, idText)
          [] request.method = "delete" /\ onBook -> ServeDelete(svc, request, idText)
          [] OTHER -> ServeUnknown(svc, request)


(***************************************************************************)
(* The domain operations against the service: a client makes one call      *)
(* after the other; each call sends its request, the service answers it    *)
(* and moves to its next state.                                            *)
(***************************************************************************)
MaxCreated == 1     \* the service hands out at most MaxCreated new identifiers

FirstId == 8

PresetBook ==
    Obj([title |-> Str(<<"Dune">>), author |-> Str(<<"FH">>),
         isbn |-> Str(DigitRun(IsbnMinLen)), publishedYear |-> Num(1965),
         available |-> Bool(TRUE)])

InitialServices ==
    {[books |-> books, nextId |-> FirstId, idStyle |-> idStyle, getMessage |-> getMessage] :
        books \in {<<>>, (<<"7">> :> PresetBook)},
        idStyle \in {"number", "string"},
        getMessage \in BOOLEAN}

ServiceTokens == {Undefined, Jwt, Str(<<"invalid-token">>)}

FullPayload(title, isbn, year, available) ==
    Obj([title |-> Str(title), author |-> Str(<<"Andy Hunt and Dave Thomas">>),
         isbn |-> Str(isbn), publishedYear |-> Num(year), available |-> Bool(available)])

\* create payloads: complete ones with ISBNs of several forms, one with a bad
\* ISBN, some with required fields missing
ServiceCreatePayloads ==
    {FullPayload(<<"Playwright Programmer">>, SampleIsbn, 2023, TRUE),
     FullPayload(<<"T">>, DigitRun(IsbnMaxLen), 0, FALSE),
     FullPayload(<<"T">>, DigitRun(IsbnMinLen - 1) \o <<"\t">>, 2023, TRUE),
     FullPayload(<<"T">>, <<"9", "7", "8">>, 2023, TRUE),
     Obj([title |-> Str(<<"Incomplete Book">>)]),
     Obj([author |-> Str(<<"A">>)]),
     Obj([isbn |-> Str(SampleIsbn)]),
     Obj([title |-> Str(<<"T">>), author |-> Str(<<"A">>)]),
     Obj([title |-> Str(<<"T">>), isbn |-> Str(<<"9", "7", "8">>)]),
     Obj([author |-> Str(<<"A">>), isbn |-> Str(SampleIsbn)]),
     Obj(EmptyRecord)}

ServiceUpdatePayloads ==
    {Obj([available |-> Bool(FALSE)]),
     Obj([title |-> Str(<<"Updated Title - Multi">>), publishedYear |-> Num(2020),
          available |-> Bool(FALSE)])}

ServiceIds == {Num(7), Str(<<"8">>), Num(8), Num(9), Num(999999)}

ServiceRawCalls ==
    {<<"get", <<"/invalid">> >>, <<"get", <<"/books/", "7">> >>,
     <<"patch", <<"/books/", "8">> >>, <<"options", <<"/books">> >>}

InitService ==
    /\ service \in InitialServices
    /\ ledger = NoLedger
    /\ workers = NoWorkers
    /\ pool = NoPool
    /\ contracts = Exported
    /\ vcall = NoCall
    /\ vresult = Pending
    /\ opcall = NoCall
    /\ wire = Quiet
    /\ opresult = Pending

\* what became of an identifier: the payload it was created from, whether the
\* book was updated since, whether it was deleted
Entry(payload, touched, deleted) == [payload |-> payload, touched |-> touched, deleted |-> deleted]

Noted(idText) == IF idText \in DOMAIN ledger THEN ledger[idText] ELSE Entry(Undefined, FALSE, FALSE)

LedgerAfterCreate(payload, served) ==
    IF served.response.status = 201
    THEN (NatToStr(service.nextId) :> Entry(payload, FALSE, FALSE)) @@ ledger
    ELSE ledger

LedgerAfterUpdate(idText, served) ==
    IF served.response.status = 200
    THEN (idText :> [Noted(idText) EXCEPT !.touched = TRUE]) @@ ledger
    ELSE ledger

LedgerAfterDelete(idText, served) ==
    IF served.response.status = 200
    THEN (idText :> [Noted(idText) EXCEPT !.deleted = TRUE]) @@ ledger
    ELSE ledger

CreateBookCall ==
    /\ opcall = NoCall
    /\ service.nextId < FirstId + MaxCreated
    /\ \E payload \in ServiceCreatePayloads, token \in ServiceTokens :
          LET served == Serve(service, BooksClient_createBook(payload, token))
              run == createBook(payload, token, served.response)
          IN  /\ opcall' = [op |-> "createBook", payload |-> payload, token |-> token]
              /\ wire' = Wire(run, served.response)
              /\ opresult' = run.result
              /\ service' = served.svc
              /\ ledger' = LedgerAfterCreate(payload, served)
    /\ UNCHANGED <<vcall, vresult, contracts, workers, pool>>

GetBookByIdCall ==
    /\ opcall = NoCall
    /\ \E id \in ServiceIds :
          LET served == Serve(service, BooksClient_getBookById(id))
              run == getBookById(id, served.response)
          IN  /\ opcall' = [op |-> "getBookById", id |-> id]
              /\ wire' = Wire(run, served.response)
              /\ opresult' = run.result
              /\ service' = served.svc
    /\ UNCHANGED <<vcall, vresult, contracts, ledger, workers, pool>>

UpdateBookCall ==
    /\ opcall = NoCall
    /\ \E id \in ServiceIds, payload \in ServiceUpdatePayloads, token \in ServiceTokens :
          LET served == Serve(service, BooksClient_updateBook(id, payload, token))
              run == updateBook(id, payload, token, served.response)
          IN  /\ opcall' = [op |-> "updateBook", id |-> id, payload |-> payload,
                            token |-> token]
              /\ wire' = Wire(run, served.response)
              /\ opresult' = run.result
              /\ service' = served.svc
              /\ ledger' = LedgerAfterUpdate(IdText(id), served)
    /\ UNCHANGED <<vcall, vresult, contracts, workers, pool>>

DeleteBookCall ==
    /\ opcall = NoCall
    /\ \E id \in ServiceIds, token \in ServiceTokens :
          LET served == Serve(service, BooksClient_deleteBook(id, token))
              run == deleteBook(id, token, served.response)
          IN  /\ opcall' = [op |-> "deleteBook", id |-> id, token |-> token]
              /\ wire' = Wire(run, served.response)
              /\ opresult' = run.result
              /\ service' = served.svc
              /\ ledger' = LedgerAfterDelete(IdText(id), served)
    /\ UNCHANGED <<vcall, vresult, contracts, workers, pool>>

PatchBookCall ==
    /\ opcall = NoCall
    /\ \E id \in ServiceIds, token \in ServiceTokens :
          LET payload == Obj([available |-> Bool(FALSE)])
              served == Serve(service, BooksClient_patchBook(id, payload, token))
              run == patchBook(id, payload, token, served.response)
          IN  /\ opcall' = [op |-> "patchBook", id |-> id, payload |-> payload,
                            token |-> token]
              /\ wire' = Wire(run, served.response)
              /\ opresult' = run.result
              /\ service' = served.svc
    /\ UNCHANGED <<vcall, vresult, contracts, ledger, workers, pool>>

RawRequestCall ==
    /\ opcall = NoCall
    /\ \E call \in ServiceRawCalls :
          LET built == BooksClient_requestRaw(call[1], call[2], Undefined)
              served == IF built.kind = "throw" THEN Answer(service, 0, Null)
                        ELSE Serve(service, built.data)
              run == rawRequest(call[1], call[2], Undefined, served.response)
          IN  /\ opcall' = [op |-> "rawRequest", method |-> call[1], path |-> call[2],
                            options |-> Undefined]
              /\ wire' = Wire(run, served.response)
              /\ opresult' = run.result
              /\ service' = served.svc
    /\ UNCHANGED <<vcall, vresult, contracts, ledger, workers, pool>>

AuthenticateCall ==
    /\ opcall = NoCall
    /\ \E payload \in LoginPayloads :
          LET served == Serve(service, AuthClient_login(payload))
              run == authenticate(payload, served.response)
          IN  /\ opcall' = [op |-> "authenticate", payload |-> payload]
              /\ wire' = Wire(run, served.response)
              /\ opresult' = run.result
              /\ service' = served.svc
    /\ UNCHANGED <<vcall, vresult, contracts, ledger, workers, pool>>

NextService ==
    \/ CreateBookCall
    \/ GetBookByIdCall
    \/ UpdateBookCall
    \/ DeleteBookCall
    \/ PatchBookCall
    \/ RawRequestCall
    \/ AuthenticateCall
    \/ NextCall

SpecService == InitService /\ [][NextService]_vars


(***************************************************************************)
(* Claims about the operations against the service                         *)
(***************************************************************************)
\* sub occurs in s as a run of neighbouring pieces
Contains(s, sub) ==
    \E i \in 0..(Len(s) - Len(sub)) : SubSeq(s, i + 1, i + Len(sub)) = sub

NonEmptyString(v) == v.t = "str" /\ Len(v.s) > 0

\* a create payload the contract calls valid: non-empty title and author, an
\* isbn matching the pattern of BookSchema
ValidCreatePayload(p) ==
    /\ NonEmptyString(Get(p, "title"))
    /\ NonEmptyString(Get(p, "author"))
    /\ Get(p, "isbn").t = "str" /\ isbnRegex(Get(p, "isbn").s)

\* the same with the pattern as documented: digits, hyphens and spaces only
DocumentedCreatePayload(p) ==
    /\ NonEmptyString(Get(p, "title"))
    /\ NonEmptyString(Get(p, "author"))
    /\ ServiceIsbnValid(Get(p, "isbn"))

\* the identifier was handed out for a create and the book was neither updated
\* nor deleted since
FreshlyCreated(idText) ==
    /\ idText \in DOMAIN ledger
    /\ ledger[idText].payload # Undefined
    /\ ~ledger[idText].touched
    /\ ~ledger[idText].deleted

Returned201Envelope ==
    /\ opresult.kind = "return"
    /\ opresult.data.status = 201
    /\ opresult.data.ok
    /\ validateOrThrow(BookResponseSchema, opresult.data.body, "").kind = "return"

FetchedAsSubmitted ==
    LET idText == IdText(opcall.id)
        book == opresult.data.book
    IN  /\ opresult.kind = "return"
        /\ opresult.data.status = 200
        /\ book.t = "obj"
        /\ \A key \in BookDataKeys : Get(book, key) = Get(ledger[idText].payload, key)
        /\ Get(book, "id").t \in {"str", "num"}
        /\ IdToString(Get(book, "id")) = Str(idText)

\* C19: create then fetch round-trips. For every create payload with non-empty
\* title and author and an isbn matching the contract pattern, sent with a valid
\* token, createBook returns 201 with an envelope that passes BookResponseSchema;
\* and getBookById on the returned id returns 200 with a book whose title,
\* author, isbn, publishedYear and available are the submitted ones and whose id
\* is the created id.
C19_CreateThenFetchRoundTrips ==
    /\ (opcall.op = "createBook" /\ opcall.token = Jwt /\ ValidCreatePayload(opcall.payload))
          => Returned201Envelope
    /\ (opcall.op = "getBookById" /\ FreshlyCreated(IdText(opcall.id)))
          => FetchedAsSubmitted

\* C19 for the payloads whose isbn holds digits, hyphens and spaces only: what
\* the operations and the service keep of the round trip.
C19_RoundTripForDocumentedPattern ==
    /\ (opcall.op = "createBook" /\ opcall.token = Jwt
            /\ DocumentedCreatePayload(opcall.payload))
          => Returned201Envelope
    /\ (opcall.op = "getBookById" /\ FreshlyCreated(IdText(opcall.id)))
          => FetchedAsSubmitted

\* a book was created from the sample payload and fetched back
C19_RoundTripReached ==
    /\ opcall.op = "getBookById"
    /\ FreshlyCreated(IdText(opcall.id))
    /\ ledger[IdText(opcall.id)].payload = FullPayload(<<"Playwright Programmer">>, SampleIsbn, 2023, TRUE)
    /\ FetchedAsSubmitted

DeleteAnswered(svc, id, result) ==
    LET idText == IdText(id)
    IN  /\ result.kind = "return"
        /\ IF idText \in DOMAIN svc.books
           THEN /\ result.data.status = 200
                /\ result.data.ok
                /\ result.data.deletedId.t \in {"str", "num"}
                /\ IdToString(result.data.deletedId) = Str(idText)
           ELSE /\ result.data.status = 404
                /\ ~result.data.ok
                /\ Get(result.data.body, "message")
                      = Str(<<"Book with ID ">> \o idText \o <<" not found">>)

FetchOfDeletedIs404 ==
    (opcall.op = "getBookById" /\ Noted(IdText(opcall.id)).deleted) =>
        /\ opresult.kind = "return"
        /\ opresult.data.status = 404
        /\ Get(opresult.data.body, "error") = Str(<<"Not Found">>)
        /\ Get(opresult.data.body, "message").t = "str"
        /\ Contains(Get(opresult.data.body, "message").s, IdText(opcall.id))

\* C20: delete is idempotent in effect but not in status. A deleteBook with a
\* valid token of an id the service holds returns 200 with deletedId equal to
\* that id as text; of an id it does not hold (never existed, or deleted
\* before) it returns 404 with message 'Book with ID <id> not found'; and every
\* getBookById of an id deleted earlier returns 404 with error 'Not Found' and a
\* message containing the id.
C20_DeleteIdempotentInEffect ==
    /\ []FetchOfDeletedIs404
    /\ [][(opcall = NoCall /\ opcall'.op = "deleteBook" /\ opcall'.token = Jwt)
             => DeleteAnswered(service, opcall'.id, opresult')]_vars

\* C20 witness: book 7 was deleted earlier and is now fetched: 404.
C20_Witness ==
    /\ opcall.op = "getBookById"
    /\ opcall.id = Num(7)
    /\ Noted(<<"7">>).deleted
    /\ opresult.kind = "return"
    /\ opresult.data.status = 404

\* C20 witness: the delete of the created book 8 returned deletedId 8.
C20_WitnessDeleted ==
    /\ opcall.op = "deleteBook"
    /\ opcall.id = Str(<<"8">>)
    /\ opresult.kind = "return"
    /\ opresult.data.status = 200
    /\ IdToString(opresult.data.deletedId) = Str(<<"8">>)


(***************************************************************************)
(* The scenarios (tests/**/*.spec.ts).  A scenario is a chain of steps;    *)
(* a step makes one call and then runs the assertions that follow it.  An  *)
(* assertion that fails, or a statement that throws, ends the scenario as  *)
(* failed at that line.                                                    *)
(***************************************************************************)
\* expect(...) at a source line: passed or not
Expect(line, ok) == [line |-> line, ok |-> ok]

\* the line of the first assertion that fails, 0 when all pass
FirstFailure(checks) ==
    LET failing == {i \in 1..Len(checks) : ~checks[i].ok}
    IN  IF failing = {} THEN 0
        ELSE checks[CHOOSE i \in failing : \A j \in failing : i <= j].line

\* expect(actual).toMatchObject(expected) for an expected object of primitives
MatchObject(actual, expected) ==
    /\ actual.t = "obj"
    /\ \A key \in DOMAIN expected.o : Get(actual, key) = expected.o[key]

\* x.toString() for an identifier; undefined where the statement would throw
IdAsText(x) == IF x.t \in {"str", "num"} THEN IdToString(x) ELSE Undefined

\* a.toString() === b.toString() with neither side throwing
SameIdText(a, b) == IdAsText(a) # Undefined /\ IdAsText(a) = IdAsText(b)

\* validateOrThrow(schema, body) and BookSchema.parse(value) do not throw
Validates(schema, value) == validateOrThrow(schema, value, "").kind = "return"

\* BookSchema.parse(body.data): the typed book, undefined where parse throws
ParsedBook(bodyJson) ==
    LET r == SafeParse(BookSchema, Get(bodyJson, "data"))
    IN  IF r.issues = <<>> THEN r.data ELSE Undefined

MessageOf(result) == Get(result.body, "message")

MessageContains(result, sub) ==
    MessageOf(result).t = "str" /\ Contains(MessageOf(result).s, sub)

ScenarioPayload(title, isbn, year) ==
    Obj([title |-> Str(<<title>>), author |-> Str(<<"Author">>), isbn |-> Str(isbn),
         publishedYear |-> Num(year), available |-> Bool(TRUE)])

Isbn333 == <<"3", "3", "3", "-", "3", "3", "3", "3", "3", "3", "3", "3", "3", "3">>
Isbn111 == <<"1", "1", "1", "-", "1", "1", "1", "1", "1", "1", "1", "1", "1", "1">>

DeletePayload == ScenarioPayload("Delete positive", Isbn333, 2015)
PostPayload == ScenarioPayload("Playwright Programmer", SampleIsbn, 2023)
UpdateSinglePayload == ScenarioPayload("Update single field", Isbn111, 2021)
AvailabilityUpdate == Obj([available |-> Bool(FALSE)])

ScenarioNames ==
    {"deleteCreated", "deleteMissing", "createAndFetch", "updateAvailability",
     "updateMissing", "patchUnsupported", "putWithoutToken"}

\* the scenarios that take the token fixture
UsesToken(name) == name # "putWithoutToken"

\* the number of calls in the scenario's chain
ScenarioLength(name) ==
    CASE name = "deleteCreated" -> 4
      [] name = "createAndFetch" -> 2
      [] name = "updateAvailability" -> 4
      [] OTHER -> 1

CallCreate(payload, token) == [op |-> "createBook", payload |-> payload, token |-> token]
CallGet(id) == [op |-> "getBookById", id |-> id]
CallUpdate(id, payload, token) == [op |-> "updateBook", id |-> id, payload |-> payload, token |-> token]
CallDelete(id, token) == [op |-> "deleteBook", id |-> id, token |-> token]
CallPatch(id, payload, token) == [op |-> "patchBook", id |-> id, payload |-> payload, token |-> token]

\* the call the scenario makes at its step, from what it holds (token, createdId)
ScenarioCall(name, step, loc) ==
    CASE name = "deleteCreated" ->
           (CASE step = 1 -> CallCreate(DeletePayload, loc.token)
              [] step = 2 -> CallGet(loc.createdId)
              [] step = 3 -> CallDelete(loc.createdId, loc.token)
              [] step = 4 -> CallGet(loc.createdId))
      [] name = "deleteMissing" -> CallDelete(Num(999999), loc.token)
      [] name = "createAndFetch" ->
           (CASE step = 1 -> CallCreate(PostPayload, loc.token)
              [] step = 2 -> CallGet(loc.createdId))
      [] name = "updateAvailability" ->
           (CASE step = 1 -> CallCreate(UpdateSinglePayload, loc.token)
              [] step = 2 -> CallUpdate(loc.createdId, AvailabilityUpdate, loc.token)
              [] step = 3 -> CallGet(loc.createdId)
              [] step = 4 -> CallDelete(loc.createdId, loc.token))
      [] name = "updateMissing" ->
            CallUpdate(Num(999), Obj([title |-> Str(<<"Will not be found">>)]), loc.token)
      [] name = "patchUnsupported" -> CallPatch(Str(<<"1">>), AvailabilityUpdate, loc.token)
      [] name = "putWithoutToken" ->
            CallUpdate(Str(<<"1">>), Obj([title |-> Str(<<"updated">>)]), Undefined)


\* what a scenario sees of a call that threw instead of returning a result
NoResult == [status |-> 0, ok |-> FALSE, body |-> Undefined]

\* the call made against the service: the domain operation runs on the service's answer
Perform(call, svc) ==
    LET request ==
            CASE call.op = "createBook" -> BooksClient_createBook(call.payload, call.token)
              [] call.op = "getBookById" -> BooksClient_getBookById(call.id)
              [] call.op = "updateBook" -> BooksClient_updateBook(call.id, call.payload, call.token)
              [] call.op = "deleteBook" -> BooksClient_deleteBook(call.id, call.token)
              [] call.op = "patchBook" -> BooksClient_patchBook(call.id, call.payload, call.token)
        served == Serve(svc, request)
        run ==
            CASE call.op = "createBook" -> createBook(call.payload, call.token, served.response)
              [] call.op = "getBookById" -> getBookById(call.id, served.response)
              [] call.op = "updateBook" -> updateBook(call.id, call.payload, call.token, served.response)
              [] call.op = "deleteBook" -> deleteBook(call.id, call.token, served.response)
              [] call.op = "patchBook" -> patchBook(call.id, call.payload, call.token, served.response)
    IN  [svc |-> served.svc, request |-> request,
         returned |-> run.result.kind = "return",
         res |-> IF run.result.kind = "return" THEN run.result.data ELSE NoResult]

\* `Book with ID ${id} not found`
NotFoundMessage(id) == Str(<<"Book with ID ">> \o IdText(id) \o <<" not found">>)

BodyIs(res, key, text) == Get(res.body, key) = Str(<<text>>)

\* the assertions on a createBook result shared by the scenarios that create
\* (status, contract, parse), at the lines the scenario has them
CreatedChecks(res, okLine, statusLine, contractLine, parseLine) ==
    <<Expect(okLine, res.ok), Expect(statusLine, res.status = 201),
      Expect(contractLine, Validates(BookResponseSchema, res.body)),
      Expect(parseLine, ParsedBook(res.body) # Undefined)>>

\* the assertions that follow the scenario's call at its step, in source order
ScenarioCheck(name, step, loc, res) ==
    LET dataJson == Get(res.body, "data")
        created == loc.createdId
    IN
    CASE name = "deleteCreated" ->
           (CASE step = 1 -> CreatedChecks(res, 38, 39, 40, 41)
              [] step = 2 ->
                    <<Expect(46, res.ok), Expect(47, res.status = 200),
                      Expect(48, SameIdText(Get(dataJson, "id"), created)),
                      Expect(49, MatchObject(dataJson, DeletePayload))>>
              [] step = 3 ->
                    <<Expect(55, res.ok), Expect(56, res.status = 200),
                      Expect(57, MatchObject(res.body,
                                    Obj([success |-> Bool(TRUE),
                                         message |-> Str(<<"Book deleted successfully">>)]))),
                      Expect(60, Get(res.body, "deletedId") = IdAsText(created))>>
              [] step = 4 ->
                    <<Expect(65, ~res.ok), Expect(66, res.status = 404),
                      Expect(67, Truthy(res.body)), Expect(68, BodyIs(res, "error", "Not Found")),
                      Expect(69, MessageContains(res, IdText(created)))>>)
      [] name = "deleteMissing" ->
            <<Expect(78, ~res.ok), Expect(79, res.status = 404), Expect(80, Truthy(res.body)),
              Expect(82, MatchObject(res.body,
                            Obj([error |-> Str(<<"Not Found">>),
                                 message |-> NotFoundMessage(Num(999999))])))>>
      [] name = "createAndFetch" ->
           (CASE step = 1 ->
                    <<Expect(41, res.ok), Expect(42, res.status = 201),
                      Expect(45, Truthy(res.body)),
                      Expect(47, Validates(BookResponseSchema, res.body)),
                      Expect(52, ParsedBook(res.body) # Undefined),
                      Expect(54, Get(res.body, "success") = Bool(TRUE)),
                      Expect(59, MatchObject(ParsedBook(res.body), PostPayload))>>
              [] step = 2 ->
                    <<Expect(71, res.ok), Expect(72, res.status = 200),
                      Expect(74, Validates(BookResponseSchema, res.body)),
                      Expect(75, ParsedBook(res.body) # Undefined),
                      Expect(78, SameIdText(Get(ParsedBook(res.body), "id"), created)),
                      Expect(79, MatchObject(ParsedBook(res.body), PostPayload))>>)
      [] name = "updateAvailability" ->
           (CASE step = 1 -> CreatedChecks(res, 37, 38, 39, 40)
              [] step = 2 ->
                    <<Expect(47, res.ok), Expect(48, res.status = 200),
                      Expect(49, Truthy(res.body)),
                      Expect(51, Validates(PartialBookSchema, res.body)),
                      Expect(53, Get(res.body, "success") = Bool(TRUE)),
                      Expect(54, BodyIs(res, "message", "Book updated successfully")),
                      Expect(56, MatchObject(dataJson, AvailabilityUpdate)),
                      Expect(57, SameIdText(Get(dataJson, "id"), created))>>
              [] step = 3 ->
                    <<Expect(61, res.ok), Expect(62, res.status = 200),
                      Expect(63, SameIdText(Get(dataJson, "id"), created)),
                      Expect(65, MatchObject(dataJson, AvailabilityUpdate))>>
              [] step = 4 ->
                    <<Expect(69, res.status = 200),
                      Expect(70, Get(res.body, "success") = Bool(TRUE)),
                      Expect(71, BodyIs(res, "message", "Book deleted successfully")),
                      Expect(72, SameIdText(Get(res.body, "deletedId"), created))>>)
      [] name = "updateMissing" ->
            <<Expect(137, ~res.ok), Expect(138, res.status = 404), Expect(139, Truthy(res.body)),
              Expect(140, BodyIs(res, "error", "Not Found")),
              Expect(141, MessageOf(res) = NotFoundMessage(Num(999))),
              Expect(142, MessageContains(res, IdText(Num(999))))>>
      [] name = "patchUnsupported" ->
            <<Expect(73, res.status = 404), Expect(74, BodyIs(res, "error", "Not Found")),
              Expect(75, MessageContains(res, <<"Cannot PATCH ", "/books/">>))>>
      [] name = "putWithoutToken" ->
            <<Expect(106, ~res.ok), Expect(107, res.status = 401),
              Expect(108, BodyIs(res, "error", "Access denied. No token provided.")),
              Expect(109, BodyIs(res, "message",
                                 "Authorization header with Bearer token is required"))>>

\* const createdId = ...: what the scenario keeps of the created book's identifier
ScenarioLearn(name, step, loc, res) ==
    IF step # 1 \/ name \notin {"deleteCreated", "createAndFetch", "updateAvailability"}
    THEN loc
    ELSE [loc EXCEPT !.createdId = Get(ParsedBook(res.body), "id")]

\* the assertions that compare identifiers, by scenario and line
IdAssertions ==
    {<<"deleteCreated", 48>>, <<"deleteCreated", 60>>, <<"createAndFetch", 78>>,
     <<"updateAvailability", 57>>, <<"updateAvailability", 63>>, <<"updateAvailability", 72>>}


(***************************************************************************)
(* Running the scenarios: every worker runs one scenario (beforeAll, the   *)
(* token fixture, the test body step by step, the fixture's cleanup,       *)
(* afterAll), and the workers' steps interleave against the one service.   *)
(***************************************************************************)
Workers == {"w1", "w2"}

\* AUTH_USERNAME / AUTH_PASSWORD as the environment configures them
ConfiguredLogins ==
    {AdminLogin, Obj([username |-> Str(<<"admin">>), password |-> Str(<<"password123">>)])}

\* newContext handing every caller the one context that already exists
NewContextMutShared(contexts, owner) ==
    IF contexts = <<>> THEN Append(contexts, [owner |-> owner, disposed |-> FALSE])
    ELSE contexts

\* request.newContext({ baseURL }): a new context of the worker's own
NewContext(contexts, owner) == Append(contexts, [owner |-> owner, disposed |-> FALSE])

\* the context newContext has just returned
NewestContext(contexts) == Len(contexts)

\* context.dispose()
Dispose(contexts, ctx) == [contexts EXCEPT ![ctx].disposed = TRUE]

NoContext == 0

\* the environments of a run: the configured credentials, and whether the login
\* request fails in transport
Environments ==
    {[login |-> login, offline |-> FALSE] : login \in ConfiguredLogins}
        \cup {[login |-> AdminLogin, offline |-> TRUE]}

StartOf(name, env) ==
    [scenario |-> name, login |-> env.login, offline |-> env.offline,
     pc |-> "beforeAll", step |-> 1, error |-> <<>>, trail |-> <<>>,
     loc |-> [token |-> Undefined, createdId |-> Undefined],
     failedAt |-> 0, ctx |-> NoContext, api |-> NoContext,
     created |-> {}, deleted |-> {}, deleteTargets |-> {}]

\* the books the service may hold before any scenario starts
PresetShelves ==
    {<<>>, (NatToStr(999999) :> PresetBook) @@ (NatToStr(999) :> PresetBook)}

ScenarioServices ==
    {[books |-> books, nextId |-> FirstId, idStyle |-> idStyle, getMessage |-> getMessage] :
        books \in PresetShelves, idStyle \in {"number", "string"}, getMessage \in BOOLEAN}

InitScenarios ==
    /\ service \in ScenarioServices
    /\ \E env \in Environments :
          workers \in [Workers -> {StartOf(name, env) : name \in ScenarioNames}]
    /\ pool = NoPool
    /\ ledger = NoLedger
    /\ contracts = Exported
    /\ vcall = NoCall
    /\ vresult = Pending
    /\ opcall = NoCall
    /\ wire = Quiet
    /\ opresult = Pending

untouchedByScenarios == <<vcall, vresult, opcall, wire, opresult, contracts, ledger>>

\* test.beforeAll: apiRequestContext = await request.newContext({ baseURL })
BeforeAll(w) ==
    /\ workers[w].pc = "beforeAll"
    /\ pool' = NewContext(pool, w)
    /\ workers' = [workers EXCEPT ![w].ctx = NewestContext(pool'),
                                  ![w].pc = IF UsesToken(workers[w].scenario)
                                            THEN "fixture" ELSE "body"]
    /\ UNCHANGED <<service, untouchedByScenarios>>

\* the answer to the fixture's login request
LoginAnswer(env, svc) ==
    IF env.offline THEN NetworkError ELSE Serve(svc, AuthClient_login(env.login)).response

NoTokenMessage == <<"Authentication failed: no token returned from /auth/login">>

\* the token fixture throwing on a missing token only after the test has run
FixtureOutcomeMutUseBeforeCheck(env, svc) ==
    LET run == authenticate(env.login, LoginAnswer(env, svc)).result
    IN  IF run.kind # "return" THEN [use |-> FALSE, token |-> Undefined, error |-> run.message]
        ELSE [use |-> TRUE, token |-> run.data.token,
              error |-> IF Truthy(run.data.token) THEN <<>> ELSE NoTokenMessage]

\* the fixture up to `await use`: whether the test is run, with which token, or
\* the message of the error thrown (by authenticate, or for want of a token)
FixtureOutcome(env, svc) ==
    LET run == authenticate(env.login, LoginAnswer(env, svc)).result
    IN  IF run.kind # "return" THEN [use |-> FALSE, token |-> Undefined, error |-> run.message]
        ELSE IF ~Truthy(run.data.token)
        THEN [use |-> FALSE, token |-> Undefined, error |-> NoTokenMessage]
        ELSE [use |-> TRUE, token |-> run.data.token, error |-> <<>>]

\* the environment the worker runs in
EnvOf(worker) == [login |-> worker.login, offline |-> worker.offline]

\* the token fixture up to `await use(result.token)`
TokenFixtureSetUp(w) ==
    /\ workers[w].pc = "fixture"
    /\ pool' = NewContext(pool, w)
    /\ LET outcome == FixtureOutcome(EnvOf(workers[w]), service)
       IN  workers' = [workers EXCEPT
                          ![w].api = NewestContext(pool'),
                          ![w].loc.token = outcome.token,
                          ![w].error = outcome.error,
                          ![w].failedAt = IF outcome.use THEN 0 ELSE 24,
                          ![w].trail = workers[w].trail
                                          \o <<"newContext", "authenticate",
                                               IF outcome.use THEN "use" ELSE "throw">>,
                          ![w].pc = IF outcome.use THEN "body" ELSE "afterAll"]
    /\ UNCHANGED <<service, untouchedByScenarios>>

\* the identifier of the book a served request created, if it created one
CreatedBy(before, after) ==
    IF after.nextId > before.nextId THEN {NatToStr(before.nextId)} ELSE {}

\* the identifier a DELETE request addresses
DeleteTarget(request) == IF request.method = "delete" THEN {Tail(request.path)} ELSE {}

\* a worker after the step's call and assertions
AfterStep(worker, svc) ==
    LET name == worker.scenario
        done == Perform(ScenarioCall(name, worker.step, worker.loc), svc)
        checks == ScenarioCheck(name, worker.step, worker.loc, done.res)
        failure == IF done.returned THEN FirstFailure(checks) ELSE 1
        last == failure # 0 \/ worker.step = ScenarioLength(name)
    IN  [worker EXCEPT
            !.loc = IF failure = 0 THEN ScenarioLearn(name, worker.step, worker.loc, done.res)
                    ELSE worker.loc,
            !.failedAt = failure,
            !.trail = Append(worker.trail, "call"),
            !.step = IF last THEN worker.step ELSE worker.step + 1,
            !.pc = IF ~last THEN "body"
                   ELSE IF UsesToken(name) THEN "fixtureCleanup" ELSE "afterAll",
            !.created = worker.created \cup CreatedBy(svc, done.svc),
            !.deleted = worker.deleted \cup
                            {id \in DeleteTarget(done.request) :
                                id \in DOMAIN svc.books /\ id \notin DOMAIN done.svc.books},
            !.deleteTargets = worker.deleteTargets \cup DeleteTarget(done.request)]

\* one step of the test body: the call, then the assertions up to the next call
ScenarioStep(w) ==
    /\ workers[w].pc = "body"
    /\ LET call == ScenarioCall(workers[w].scenario, workers[w].step, workers[w].loc)
       IN  /\ service' = Perform(call, service).svc
           /\ workers' = [workers EXCEPT ![w] = AfterStep(workers[w], service)]
    /\ UNCHANGED <<pool, untouchedByScenarios>>

\* the token fixture after `await use`: await api.dispose()
TokenFixtureCleanup(w) ==
    /\ workers[w].pc = "fixtureCleanup"
    /\ pool' = Dispose(pool, workers[w].api)
    /\ workers' = [workers EXCEPT ![w].pc = "afterAll",
                                  ![w].trail = Append(workers[w].trail, "dispose")]
    /\ UNCHANGED <<service, untouchedByScenarios>>

\* test.afterAll: await apiRequestContext.dispose()
AfterAll(w) ==
    /\ workers[w].pc = "afterAll"
    /\ pool' = Dispose(pool, workers[w].ctx)
    /\ workers' = [workers EXCEPT ![w].pc = "done"]
    /\ UNCHANGED <<service, untouchedByScenarios>>

WorkerStep(w) ==
    \/ BeforeAll(w)
    \/ TokenFixtureSetUp(w)
    \/ ScenarioStep(w)
    \/ TokenFixtureCleanup(w)
    \/ AfterAll(w)

NextScenarios == \E w \in Workers : WorkerStep(w)

SpecScenarios == InitScenarios /\ [][NextScenarios]_vars

Finished(w) == workers[w].pc = "done"
Passed(w) == Finished(w) /\ workers[w].failedAt = 0


(***************************************************************************)
(* C15: identifier comparison is done on normalized text.                  *)
(***************************************************************************)
\* the worker's scenario failed at an assertion that compares identifiers
FailedOnIdComparison(w) ==
    workers[w].failedAt # 0 /\ <<workers[w].scenario, workers[w].failedAt>> \in IdAssertions

C15_NormalizedComparisonPassed ==
    \E w \in DOMAIN workers :
        /\ workers[w].scenario = "updateAvailability"
        /\ Passed(w)
        /\ service.idStyle = "number"


(***************************************************************************)
(* C16: no mutable state is shared between concurrently running scenarios. *)
(***************************************************************************)
\* the request contexts the worker's scenario holds
Held(w) == {workers[w].ctx, workers[w].api} \ {NoContext}

\* the worker's scenario is between its beforeAll and its afterAll
Running(w) == workers[w].pc \in {"fixture", "body", "fixtureCleanup", "afterAll"}

\* the contexts the worker's scenario may still send requests on or dispose
InUse(w) ==
    (IF Running(w) THEN {workers[w].ctx} ELSE {})
        \cup (IF workers[w].pc \in {"body", "fixtureCleanup"} /\ UsesToken(workers[w].scenario)
              THEN {workers[w].api} ELSE {})

\* C16: every scenario holds request contexts of its own and a token of its own:
\* the contexts it holds were created by it and are held by no other scenario, a
\* context it still uses has not been disposed (by anyone), and the token it
\* holds came from the login made on its own fixture context.
C16_NoStateSharedBetweenScenarios ==
    \A w \in DOMAIN workers :
        /\ \A c \in Held(w) : pool[c].owner = w
        /\ \A v \in DOMAIN workers \ {w} : Held(w) \cap Held(v) = {}
        /\ \A c \in InUse(w) : c # NoContext /\ ~pool[c].disposed
        /\ workers[w].loc.token # Undefined =>
              workers[w].api # NoContext /\ pool[workers[w].api].owner = w

\* two scenarios in their bodies at once, each with its token
C16_Witness ==
    /\ DOMAIN workers = Workers
    /\ \A w \in Workers : workers[w].pc = "body" /\ workers[w].loc.token # Undefined
    /\ \A w \in Workers : workers[w].step > 1

\* one scenario has disposed its contexts while the other is still in its body
C16_WitnessDisposedBesideRunning ==
    \E w, v \in DOMAIN workers :
        /\ Finished(w) /\ workers[w].api # NoContext /\ pool[workers[w].api].disposed
        /\ workers[v].pc = "body" /\ workers[v].step > 1


(***************************************************************************)
(* C17: each scenario deletes exactly the resources it created.            *)
(***************************************************************************)
\* every book the worker's scenario created has been deleted by it
CleanedUp(w) == workers[w].created \subseteq workers[w].deleted

\* every DELETE the worker's scenario issued addresses a book it created
DeletesOnlyOwn(w) == workers[w].deleteTargets \subseteq workers[w].created

\* C17: a scenario that has passed has deleted every book it created, and no
\* scenario issues a DELETE for an identifier of a book it did not create.
C17_DeletesExactlyWhatItCreated ==
    \A w \in DOMAIN workers :
        /\ Passed(w) => CleanedUp(w)
        /\ DeletesOnlyOwn(w)


(***************************************************************************)
(* C18: scenarios do not assume an exclusive namespace.                    *)
(***************************************************************************)
RECURSIVE RunBody(_, _)
\* the line at which the body fails (0: it passes) when its steps run one after
\* another against the service with no other scenario in between
RunBody(worker, svc) ==
    IF worker.pc # "body" THEN worker.failedAt
    ELSE RunBody(AfterStep(worker, svc),
                 Perform(ScenarioCall(worker.scenario, worker.step, worker.loc), svc).svc)

\* the service with the same conventions, holding no book
EmptyShelf(svc) == [svc EXCEPT !.books = <<>>, !.nextId = FirstId]

\* where the scenario fails when it runs alone against the empty service
AloneFailedAt(name, env, svc) ==
    LET outcome == FixtureOutcome(env, svc)
        start == [StartOf(name, env) EXCEPT !.pc = "body",
                     !.loc.token = IF UsesToken(name) THEN outcome.token ELSE Undefined]
    IN  IF UsesToken(name) /\ ~outcome.use THEN 24
        ELSE RunBody(start, EmptyShelf(svc))

\* C18: a scenario's verdict is the same whichever books exist beforehand and
\* however the other scenarios' steps interleave with its own: it passes exactly
\* when it passes running alone against a service that holds no book.
C18_VerdictIndependentOfOtherBooks ==
    \A w \in DOMAIN workers :
        Finished(w) =>
            ((workers[w].failedAt = 0)
                = (AloneFailedAt(workers[w].scenario, EnvOf(workers[w]), service) = 0))


(***************************************************************************)
(* C21: update is a partial merge.                                         *)
(***************************************************************************)
\* the book getBookById returns for the identifier against the service
Fetched(svc, id) == getBookById(id, Serve(svc, BooksClient_getBookById(id)).response).result.data.book

\* an updateBook call has just been answered 200
UpdateSucceeded ==
    /\ opcall.op = "updateBook"
    /\ opresult.kind = "return"
    /\ opresult.data.status = 200

\* the fetched book after the update: the payload's value for the fields the
\* payload names, the value fetched before the update for every other field
MergedOnFetch(before, after, id, payload) ==
    /\ Fetched(before, id).t = "obj"
    /\ Fetched(after, id).t = "obj"
    /\ DOMAIN Fetched(after, id).o = DOMAIN Fetched(before, id).o
    /\ \A key \in DOMAIN Fetched(after, id).o :
          Fetched(after, id).o[key]
              = IF key \in DOMAIN payload.o THEN payload.o[key] ELSE Fetched(before, id).o[key]
    /\ Get(Fetched(after, id), "id") = Get(Fetched(before, id), "id")

\* C21: after an updateBook of an existing book answered 200, getBookById returns
\* the payload's values for exactly the fields the payload names and the values
\* from before the update for every other field, the id unchanged.
C21_UpdateIsPartialMerge ==
    [][(opcall = NoCall /\ UpdateSucceeded')
          => MergedOnFetch(service, service', opcall'.id, opcall'.payload)]_vars

\* only available was updated, on a book created through createBook
C21_Witness ==
    /\ UpdateSucceeded
    /\ opcall.payload = Obj([available |-> Bool(FALSE)])
    /\ IdText(opcall.id) = NatToStr(FirstId)
    /\ Get(Fetched(service, opcall.id), "available") = Bool(FALSE)
    /\ Get(Fetched(service, opcall.id), "title") = Str(<<"Playwright Programmer">>)

\* several fields were updated at once
C21_WitnessMultiField ==
    /\ UpdateSucceeded
    /\ Cardinality(DOMAIN opcall.payload.o) > 1
    /\ Get(Fetched(service, opcall.id), "title") = Str(<<"Updated Title - Multi">>)
    /\ Get(Fetched(service, opcall.id), "author") = Str(<<"FH">>)


(***************************************************************************)
(* C22: a protected mutation without a token is answered 401, whatever     *)
(* else is wrong with the call.                                            *)
(***************************************************************************)
\* the result of a call refused for want of a token
DeniedNoToken(result) ==
    /\ result.kind = "return"
    /\ result.data.status = 401
    /\ ~result.data.ok
    /\ Get(result.data.body, "error") = Str(<<"Access denied. No token provided.">>)
    /\ Get(result.data.body, "message")
          = Str(<<"Authorization header with Bearer token is required">>)

\* a protected mutation is being called without a token
MutationWithoutToken(call) ==
    call.op \in {"createBook", "updateBook", "deleteBook"} /\ call.token = Undefined

\* C22: createBook, updateBook and deleteBook called without a token return 401
\* with the no-token error and message, whether or not the payload is valid and
\* whether or not the addressed book exists, and the service's books are untouched.
C22_NoTokenIs401First ==
    [][(opcall = NoCall /\ opcall' # NoCall /\ MutationWithoutToken(opcall'))
          => (DeniedNoToken(opresult') /\ service' = service)]_vars

\* a create with required fields missing, without a token: 401, not 400
C22_Witness ==
    /\ opcall # NoCall
    /\ opcall.op = "createBook"
    /\ opcall.token = Undefined
    /\ Get(opcall.payload, "isbn") = Undefined
    /\ DeniedNoToken(opresult)

\* a delete of an identifier that names no book, without a token: 401, not 404
C22_WitnessMissingBook ==
    /\ opcall # NoCall
    /\ opcall.op = "deleteBook"
    /\ opcall.token = Undefined
    /\ IdText(opcall.id) \notin DOMAIN service.books
    /\ DeniedNoToken(opresult)


(***************************************************************************)
(* C23: a create with required fields missing is answered 400.             *)
(***************************************************************************)
RequiredFields == {"title", "author", "isbn"}

\* the required fields the payload does not have
MissingOf(payload) == {key \in RequiredFields : Get(payload, key) = Undefined}

\* the result of a create refused for missing fields
RefusedMissingFields(result) ==
    /\ result.kind = "return"
    /\ result.data.status = 400
    /\ Get(result.data.body, "error") = Str(<<"Bad Request">>)
    /\ Get(result.data.body, "message")
          = Str(<<"Missing required fields: title, author, and isbn are required">>)

\* C23: createBook with a valid token and a payload from which any non-empty
\* subset of title, author and isbn is missing returns 400 'Bad Request' with the
\* exact missing-fields message, and the service holds the same books as before.
C23_MissingFieldsIs400 ==
    [][(opcall = NoCall /\ opcall' # NoCall /\ opcall'.op = "createBook"
            /\ opcall'.token = Str(<<"jwt">>) /\ MissingOf(opcall'.payload) # {})
          => (RefusedMissingFields(opresult') /\ service' = service)]_vars

\* a create refused with exactly the given fields missing
RefusedWithMissing(fields) ==
    /\ opcall # NoCall
    /\ opcall.op = "createBook"
    /\ opcall.token = Str(<<"jwt">>)
    /\ MissingOf(opcall.payload) = fields
    /\ RefusedMissingFields(opresult)

\* only the isbn is missing
C23_Witness == RefusedWithMissing({"isbn"})

\* all three required fields are missing
C23_WitnessAllMissing == RefusedWithMissing(RequiredFields)


(***************************************************************************)
(* C24: the token fixture runs the test only with a token from its login.  *)
(***************************************************************************)
\* the worker's test body has made a call
BodyRan(w) == \E i \in 1..Len(workers[w].trail) : workers[w].trail[i] = "call"

\* what the login of the worker's fixture returns (or throws)
LoginOf(w) == authenticate(workers[w].login, LoginAnswer(EnvOf(workers[w]), service)).result

\* the fixture's events come in the order create context, authenticate, then
\* either use (the calls of the body, and last the dispose) or throw (and no more)
FixtureOrdered(trail) ==
    \/ trail = <<>>
    \/ /\ Len(trail) >= 3
       /\ SubSeq(trail, 1, 2) = <<"newContext", "authenticate">>
       /\ \/ trail = <<"newContext", "authenticate", "throw">>
          \/ /\ trail[3] = "use"
             /\ \A i \in 4..Len(trail) :
                   \/ trail[i] = "call"
                   \/ trail[i] = "dispose" /\ i = Len(trail) /\ i > 4

\* C24: in the token fixture the order is create context, authenticate, run the
\* test with the token, dispose; the test body runs only with the non-empty token
\* its own login returned; when authenticate returns no token the fixture throws
\* 'Authentication failed: no token returned from /auth/login' and the body never
\* runs.
C24_BodyOnlyAfterToken ==
    \A w \in DOMAIN workers :
        UsesToken(workers[w].scenario) =>
            /\ FixtureOrdered(workers[w].trail)
            /\ BodyRan(w) =>
                  /\ LoginOf(w).kind = "return"
                  /\ Truthy(LoginOf(w).data.token)
                  /\ workers[w].loc.token = LoginOf(w).data.token
            /\ (workers[w].trail # <<>> /\ LoginOf(w).kind = "return"
                    /\ ~Truthy(LoginOf(w).data.token)) =>
                  /\ workers[w].error = NoTokenMessage
                  /\ workers[w].failedAt # 0
                  /\ ~BodyRan(w)

\* a test has run to its end with the token of its fixture's login, and the
\* fixture has disposed its context
C24_Witness ==
    \E w \in DOMAIN workers :
        /\ Passed(w)
        /\ workers[w].scenario = "updateAvailability"
        /\ workers[w].trail
              = <<"newContext", "authenticate", "use", "call", "call", "call", "call", "dispose">>

\* the login was answered 401 with a JSON error body: the fixture threw
C24_WitnessNoToken ==
    \E w \in DOMAIN workers :
        /\ Finished(w)
        /\ workers[w].trail = <<"newContext", "authenticate", "throw">>
        /\ LoginOf(w).kind = "return"
        /\ LoginOf(w).data.status = 401
        /\ workers[w].error = NoTokenMessage


(***************************************************************************)
(* C25: the context the token fixture creates is eventually disposed.      *)
(***************************************************************************)
\* the worker's fixture has created its context
FixtureContextCreated(w) == workers[w].api # NoContext

\* the context the worker's fixture created has been disposed
FixtureContextDisposed(w) ==
    workers[w].api # NoContext /\ pool[workers[w].api].disposed

\* C25: on every path the request context the token fixture created is disposed
\* in the end: once the worker has run its afterAll (its last step: nothing of
\* the worker runs after it), the context of its fixture has been disposed,
\* after the test body completed, and also when authenticate threw or returned
\* no token.
C25_FixtureContextDisposedInTheEnd ==
    \A w \in DOMAIN workers :
        (Finished(w) /\ FixtureContextCreated(w)) => FixtureContextDisposed(w)

\* the same for the paths on which the fixture reached `use`: the body having
\* run to its end or failed, the context has been disposed when the worker is done
C25_DisposedAfterUse ==
    \A w \in DOMAIN workers :
        (Finished(w) /\ FixtureContextCreated(w) /\ workers[w].trail[3] = "use")
            => FixtureContextDisposed(w)

\* a test body failed and the fixture still disposed its context
C25_WitnessFailedBody ==
    \E w \in DOMAIN workers :
        /\ Finished(w)
        /\ workers[w].failedAt # 0
        /\ BodyRan(w)
        /\ FixtureContextDisposed(w)


(***************************************************************************)
(* C26: the documented GET answer passes the scenarios' contract checks.   *)
(***************************************************************************)
\* the contract validations the create-and-fetch scenario applies to the body
\* getBookById returned, by scenario and line
FetchContractChecks == {<<"createAndFetch", 74>>, <<"createAndFetch", 75>>}

\* C26: when GET /books/{id} answers 200 with {success: true, data: {...book...}}
\* and no message field, no create-and-fetch scenario fails at a contract
\* validation of the getBookById body.
C26_DocumentedFetchPassesContracts ==
    \A w \in DOMAIN workers :
        ~service.getMessage =>
            <<workers[w].scenario, workers[w].failedAt>> \notin FetchContractChecks


(***************************************************************************)
(* C27: the update scenarios' contract check on the updateBook response.   *)
(***************************************************************************)
\* the value is a response envelope whose data object holds a field that
\* violates the Book constraints
EnvelopeWithBadBook(value) ==
    /\ Get(value, "data").t = "obj"
    /\ SafeParse(PartialBookSchema, Get(value, "data")).issues # <<>>

\* the validation of the update scenarios: validateOrThrow(PartialBookSchema, body)
UpdateValidation == vcall.schema = "PartialBookSchema" /\ vresult # Pending

\* C27: the contract validation the update scenarios apply to the updateBook
\* response, validateOrThrow(PartialBookSchema, updateResult.body), throws for an
\* envelope whose data holds a field violating the Book constraints.
C27_UpdateValidationRejectsBadData ==
    (UpdateValidation /\ EnvelopeWithBadBook(vcall.value)) => vresult.kind = "throw"


(***************************************************************************)
(* C28: the deletedId of deleteBook's result.                              *)
(***************************************************************************)
\* the body has a value under the key
Has(body, key) == Get(body, key) # Undefined

\* body.deletedId when the body has one, otherwise body.data.id when the body
\* has one, otherwise undefined
FirstPresentId(body) ==
    IF Has(body, "deletedId") THEN Get(body, "deletedId")
    ELSE IF Has(Get(body, "data"), "id") THEN Get(Get(body, "data"), "id")
    ELSE Undefined

\* C28: for every parsed response body, the deletedId of deleteBook's result is
\* body.deletedId when the body has one, otherwise body.data.id when the body has
\* one, and otherwise undefined (so for a null body and for every body carrying
\* neither).
C28_DeletedIdIsFirstPresent ==
    (opcall.op = "deleteBook" /\ opresult.kind = "return")
        => opresult.data.deletedId = FirstPresentId(opresult.data.body)


(***************************************************************************)
(* C29: the request options addRequestOptions builds.                      *)
(***************************************************************************)
\* the operations whose client builds its options with addRequestOptions
UsesRequestOptions ==
    opcall.op \in {"createBook", "updateBook", "deleteBook", "patchBook", "rawRequest",
                   "authenticate"}

\* the data the call passes to addRequestOptions
PassedData ==
    CASE opcall.op \in {"createBook", "updateBook", "patchBook", "authenticate"} -> opcall.payload
      [] opcall.op = "rawRequest" -> Option(opcall.options, "data")
      [] OTHER -> Undefined

\* the default headers for the token the call passes
DefaultHeaders ==
    ("Content-Type" :> <<"application/json">>)
        @@ (IF Truthy(PassedToken) THEN ("Authorization" :> <<"Bearer ">> \o PassedToken.s)
            ELSE NoHeaders)

\* the headers of a request, none when the options have no headers
SentHeaders(request) ==
    IF request.opts.headers.t = "headers" THEN request.opts.headers.h ELSE NoHeaders

\* C29: the options of every request built by addRequestOptions carry the data
\* exactly when the data passed is not undefined (then that data), and as headers
\* the default headers (Content-Type application/json, and Authorization for a
\* token) merged with the caller's extra headers: an extra header wins over a
\* default of the same name, and every other default header is present.
C29_OptionsCarryDataAndMergedHeaders ==
    UsesRequestOptions =>
        \A i \in 1..Len(wire.sent) :
            LET request == wire.sent[i]
                sent == SentHeaders(request)
            IN  /\ request.opts.data = PassedData
                /\ DOMAIN sent = DOMAIN DefaultHeaders \cup DOMAIN PassedHeaders
                /\ \A name \in DOMAIN sent :
                      sent[name] = IF name \in DOMAIN PassedHeaders THEN PassedHeaders[name]
                                   ELSE DefaultHeaders[name]

\* an extra Content-Type replaced the default one, and the data went along
C29_Witness ==
    /\ opcall.op = "rawRequest"
    /\ Len(wire.sent) = 1
    /\ PassedData # Undefined
    /\ SentHeaders(wire.sent[1])["Content-Type"] = <<"text/plain">>
    /\ wire.sent[1].opts.data = PassedData

\* falsy data (false) was attached, beside both defaults and an extra header
C29_WitnessFalsyData ==
    /\ opcall.op = "rawRequest"
    /\ Len(wire.sent) = 1
    /\ wire.sent[1].opts.data = Bool(FALSE)
    /\ DOMAIN SentHeaders(wire.sent[1]) = {"Content-Type", "Authorization", "X-Trace"}


(***************************************************************************)
(* The earlier BooksClient, which builds its headers inline.               *)
(***************************************************************************)
\* headers["Authorization"] = `Bearer ${token}` when the token is truthy
InlineAuthorization(token) ==
    IF Truthy(token) THEN ("Authorization" :> Bearer(token)) ELSE NoHeaders

JsonContentType == ("Content-Type" :> <<"application/json">>)

InlineBooksClient_createBook(payload, token) ==
    Request("post", <<"/books">>,
            [data |-> payload, headers |-> Headers(InlineAuthorization(token) @@ JsonContentType)])

InlineBooksClient_getBookById(id) ==
    Request("get", <<"/books/">> \o IdText(id), NoOptions)

InlineBooksClient_updateBook(id, payload, token) ==
    Request("put", <<"/books/">> \o IdText(id),
            [data |-> payload, headers |-> Headers(InlineAuthorization(token) @@ JsonContentType)])

InlineBooksClient_deleteBook(id, token) ==
    Request("delete", <<"/books/">> \o IdText(id),
            [data |-> Undefined, headers |-> Headers(InlineAuthorization(token))])

InlineBooksClient_patchBook(id, payload, token) ==
    Request("patch", <<"/books/">> \o IdText(id),
            [data |-> payload,
             headers |-> Headers(InlineAuthorization(token)
                                    @@ (IF Truthy(payload) THEN JsonContentType ELSE NoHeaders))])

InlineBooksClient_requestRaw(method, path, options) ==
    LET extra == IF Option(options, "headers").t = "headers"
                 THEN Option(options, "headers").h ELSE NoHeaders
        withToken == InlineAuthorization(Option(options, "token")) @@ extra
        data == Option(options, "data")
        headers == IF Truthy(data) /\ "Content-Type" \notin DOMAIN withToken
                   THEN withToken @@ JsonContentType ELSE withToken
    IN  IF method \in SupportedMethods
        THEN Returned(Request(method, path,
                              [data |-> IF Truthy(data) THEN data ELSE Undefined,
                               headers |-> IF DOMAIN headers # {} THEN Headers(headers)
                                           ELSE Undefined]))
        ELSE Thrown("Error", <<"Unsupported method: ", method>>)

(***************************************************************************)
(* C30: the helper-based BooksClient against the inline-header one.        *)
(***************************************************************************)
\* what the inline-header client does for the call in progress: the request it
\* issues, or the error it throws
InlineIssues ==
    CASE opcall.op = "createBook" ->
            Returned(InlineBooksClient_createBook(opcall.payload, opcall.token))
      [] opcall.op = "getBookById" -> Returned(InlineBooksClient_getBookById(opcall.id))
      [] opcall.op = "updateBook" ->
            Returned(InlineBooksClient_updateBook(opcall.id, opcall.payload, opcall.token))
      [] opcall.op = "deleteBook" ->
            Returned(InlineBooksClient_deleteBook(opcall.id, opcall.token))
      [] opcall.op = "patchBook" ->
            Returned(InlineBooksClient_patchBook(opcall.id, opcall.payload, opcall.token))
      [] opcall.op = "rawRequest" ->
            InlineBooksClient_requestRaw(opcall.method, opcall.path, opcall.options)

\* two requests with the same method, path, body and headers
SameRequest(a, b) ==
    /\ a.method = b.method
    /\ a.path = b.path
    /\ a.opts.data = b.opts.data
    /\ SentHeaders(a) = SentHeaders(b)

BooksClientCall ==
    opcall.op \in {"createBook", "getBookById", "updateBook", "deleteBook", "patchBook",
                   "rawRequest"}

\* C30: for every BooksClient operation and every payload, token and extra
\* headers, the helper-based client issues a request exactly when the
\* inline-header client does, with the same method, path, body and headers, and
\* otherwise both throw 'Unsupported method'.
C30_HelperClientEquivalentToInline ==
    BooksClientCall =>
        IF InlineIssues.kind = "return"
        THEN Len(wire.sent) = 1 /\ SameRequest(wire.sent[1], InlineIssues.data)
        ELSE /\ wire.sent = <<>>
             /\ opresult.kind = "throw"
             /\ opresult.message = InlineIssues.message

\* the same for the calls on which the two clients cannot differ: createBook,
\* getBookById and updateBook
C30_EquivalentWhereHeadersAreFixed ==
    opcall.op \in {"createBook", "getBookById", "updateBook"} =>
        (Len(wire.sent) = 1 /\ SameRequest(wire.sent[1], InlineIssues.data))

====
